---- MODULE Spec2Model ----
(***************************************************************************)
(* State-machine model of the three simulation engines of the arcade      *)
(* suite: the lane runner (GameCanvas), the elimination arena             *)
(* (AIEliminationGame) and the drift time-attack racer (DriftAttackGame). *)
(*                                                                         *)
(* Lengths of the runner are kept in hundredths of a pixel (PX = 100), so  *)
(* that 0.3 speed steps, the halved slow-motion speed and the 0.6 gravity  *)
(* are exact integers.  The drift boost-meter is kept in halves (the       *)
(* smallest step of the code is 0.5).                                      *)
(***************************************************************************)
EXTENDS Integers, Sequences, FiniteSets, TLC

\* ------------------------------------------------------------------------
\* Bounds of the model
\* ------------------------------------------------------------------------
MaxTicks == 12        \* frame callbacks explored per behaviour (runner)
MaxKeys == 1          \* key / touch events explored per behaviour (runner)

\* ------------------------------------------------------------------------
\* Runner: program constants (constants.ts, GameCanvas.tsx)
\* ------------------------------------------------------------------------
PX == 100
CANVAS_WIDTH == 1000
CANVAS_HEIGHT == 600
LANE_COUNT == 5
LANE_HEIGHT == CANVAS_HEIGHT \div LANE_COUNT
PLAYER_SIZE == 48
OBSTACLE_SIZE == 48
COIN_SIZE == 28
POWERUP_SIZE == 34
\* speeds in hundredths of a pixel per frame: 5, 20 and 0.3
INITIAL_SPEED == 500
MAX_SPEED == 2000
SPEED_INCREMENT == 30
LEVEL_SCORE_THRESHOLD == 250
RIVAL_COUNT == 21     \* CHARACTERS.filter(c => c.id !== character.id)
PLAYER_X == 150
JUMP_VELOCITY == -1500
GRAVITY == 60
JUMP_CLEARANCE == 50
COMBO_WINDOW == 180
SLOWMO_FRAMES == 300
SPAWN_DISTANCE == 300
SCORE_INTERVAL == 20
DISTANCE_AWARD == 10

VARIABLES
  \* ---- runner (GameCanvas refs and the gameState prop) ----
  gameState,
  reqRef,             \* the registration reqRef.current names is pending
  reqOrphans,         \* registrations pending that reqRef.current lost
  framesRef, scoreRef, levelRef, speedRef,
  slowMoTimerRef, shieldActiveRef, pausedRef,
  comboCountRef, comboMultiplierRef, comboTimerRef,
  playerLaneRef, playerYRef, playerOffsetXRef,
  isJumpingRef, jumpVelocityRef, jumpOffsetYRef,
  entitiesRef, introducedRivalsRef,
  gameOverCalls,      \* number of onGameOver invocations (external sink)
  crashed,            \* the frame callback ended by an uncaught TypeError
  hadCollision,       \* some entity effect has happened in this run
  everPaused,         \* some frame of this run executed while paused
  lastFx,             \* what the last step did (kind, effects, entity hit)
  ticks, keys         \* exploration counters

runnerVars == <<gameState, reqRef, reqOrphans, framesRef, scoreRef, levelRef, speedRef,
  slowMoTimerRef, shieldActiveRef, pausedRef,
  comboCountRef, comboMultiplierRef, comboTimerRef,
  playerLaneRef, playerYRef, playerOffsetXRef,
  isJumpingRef, jumpVelocityRef, jumpOffsetYRef,
  entitiesRef, introducedRivalsRef, gameOverCalls, crashed, hadCollision,
  everPaused, lastFx, ticks, keys>>

VARIABLES
  \* ---- elimination (AIEliminationGame refs and state) ----
  combatantsRef, speedMultiplierRef, frameCountRef, eliminationOrderRef,
  playerEliminatedRef, winnerCelebrationFramesRef,
  elimAnimationFrame,   \* a callback of the latest start's chain is pending
  elimGameStarted, elimWinner, elimScore, elimPlacement,
  selectedCharacterId, selectedGameMode, finalLeaderboard,
  elimScreen,           \* the screen the component renders
  loopPlayer,           \* selectedCharacterId as the running gameLoop sees it
  loopMode,             \* selectedGameMode as the running gameLoop sees it
  staleLoops,           \* pending callbacks registered by earlier starts
  animationFrameOwner,  \* the chain animationFrameRef.current belongs to
  nameEntryTimers,      \* pending setTimeout(() => setShowNameEntry(true))
  winnerEffectRan,      \* the dependencies the winner effect last ran with
  eliminationWins,      \* App state behind the onWin prop
  onWinCalls,           \* onWin invocations since the match started
  tiesSeen,             \* collisions of this match that took out both
  collisionLog,         \* the collisions the last frame resolved, in order
  elimTicks,            \* exploration counter
  elimClicksLeft,       \* "CHANGE FIGHTER" / "HOME" clicks left to explore
  modePicksLeft         \* game mode picks left to explore

elimVars == <<combatantsRef, speedMultiplierRef, frameCountRef,
  eliminationOrderRef, playerEliminatedRef, winnerCelebrationFramesRef,
  elimAnimationFrame, elimGameStarted, elimWinner, elimScore, elimPlacement,
  selectedCharacterId, selectedGameMode, finalLeaderboard, elimScreen,
  loopPlayer, loopMode, staleLoops, animationFrameOwner, nameEntryTimers,
  winnerEffectRan, eliminationWins, onWinCalls, tiesSeen, collisionLog,
  elimTicks, elimClicksLeft, modePicksLeft>>

VARIABLES
  \* ---- drift (DriftAttackGame refs and state) ----
  driftMounted,         \* DriftAttackGame is rendered (App state DRIFT_ATTACK)
  driftMounts,          \* times the component has been mounted
  driftAnimationFrame,  \* the registration animationFrameRef names is pending
  driftOrphans,         \* registrations pending that animationFrameRef lost
  driftGameStarted, isPaused, raceFinished, raceStartTime,
  playerRef,            \* x, y, angle, speed, isDrifting, boostMeter
  isBoosting, boostTimeouts,
  currentLap, lapTimes, checkpointsPassed, perfectCheckpoints,
  keysPressed,
  ghostRecordingRef,    \* length and last timestamp of the recording
  updateGameClosure,    \* the state values the memoized updateGame sees
  enteredSinceLap,      \* checkpoints entered since the last lap completion
  savedBestTime,        \* localStorage item best-time-<track>: its characters
  savedGhost,           \* localStorage item ghost-<track>: the recording kept
  clock,                \* wall time, in frame intervals
  driftFx,              \* what the last step did
  driftTicks, driftKeys \* exploration counters

driftVars == <<driftMounted, driftMounts, driftAnimationFrame, driftOrphans,
  driftGameStarted, isPaused, raceFinished, raceStartTime,
  playerRef, isBoosting, boostTimeouts, currentLap, lapTimes,
  checkpointsPassed, perfectCheckpoints, keysPressed, ghostRecordingRef,
  updateGameClosure, enteredSinceLap, savedBestTime, savedGhost, clock,
  driftFx, driftTicks, driftKeys>>

\* the refs of GameCanvas, without the gameState prop
runnerRefs == <<reqRef, reqOrphans, framesRef, scoreRef, levelRef, speedRef,
  slowMoTimerRef, shieldActiveRef, pausedRef,
  comboCountRef, comboMultiplierRef, comboTimerRef,
  playerLaneRef, playerYRef, playerOffsetXRef,
  isJumpingRef, jumpVelocityRef, jumpOffsetYRef,
  entitiesRef, introducedRivalsRef, gameOverCalls, crashed, hadCollision,
  everPaused, lastFx, ticks, keys>>

vars == <<runnerVars, elimVars, driftVars>>

\* what an engine's handlers cannot reach: the other engines' state
notRunnerVars == <<elimVars, driftVars>>
notElimVars == <<runnerVars, driftVars>>
notDriftVars == <<runnerVars, elimVars>>

\* ------------------------------------------------------------------------
\* Runner: helpers
\* ------------------------------------------------------------------------
Min(a, b) == IF a < b THEN a ELSE b
Max(a, b) == IF a > b THEN a ELSE b
Abs(a) == IF a < 0 THEN -a ELSE a

\* a * 0.3 with the sign kept (playerY += diff * LANE_TRANSITION_SPEED)
LaneLerp(diff) ==
  IF diff >= 0 THEN (diff * 3) \div 10 ELSE -(((-diff) * 3) \div 10)

LaneCenterY(lane) == (lane * LANE_HEIGHT + LANE_HEIGHT \div 2) * PX

EntitySize(type) ==
  IF type = "obstacle" THEN OBSTACLE_SIZE
  ELSE IF type = "coin" THEN COIN_SIZE
  ELSE POWERUP_SIZE

\* variant: the 5-coin threshold compared with > instead of >=
ComboMultiplierForLate(count) ==
  IF count >= 20 THEN 5
  ELSE IF count >= 10 THEN 3
  ELSE IF count > 5 THEN 2
  ELSE 1

\* the staged multiplier assigned after a coin pickup
ComboMultiplierFor(count) ==
  IF count >= 20 THEN 5
  ELSE IF count >= 10 THEN 3
  ELSE IF count >= 5 THEN 2
  ELSE 1

\* Math.max(50, Math.floor(1800 / (effectiveSpeed * 10 + 10)))
SpawnRate(eff) == Max(50, (1800 * PX) \div (eff * 10 + 10 * PX))

RemoveAt(s, i) == SubSeq(s, 1, i - 1) \o SubSeq(s, i + 1, Len(s))

RECURSIVE SeqFilterObstaclesAnd(_, _)
\* entities.filter(e => e.type === 'obstacle' ? false : e !== ent)
SeqFilterObstaclesAnd(s, ent) ==
  IF s = <<>> THEN <<>>
  ELSE LET h == Head(s)
           rest == SeqFilterObstaclesAnd(Tail(s), ent)
       IN IF h.type = "obstacle" \/ h = ent THEN rest ELSE <<h>> \o rest

RECURSIVE ScrollEntities(_, _)
\* forEach(e => e.x -= effectiveSpeed) followed by filter(e => e.x > -100)
ScrollEntities(s, eff) ==
  IF s = <<>> THEN <<>>
  ELSE LET h == [Head(s) EXCEPT !.x = @ - eff]
           rest == ScrollEntities(Tail(s), eff)
       IN IF h.x > -100 * PX THEN <<h>> \o rest ELSE rest

\* the shrunk player hitbox pRect
PlayerRect(py, offx, joff) ==
  [x |-> (PLAYER_X * PX + offx) - (PLAYER_SIZE \div 2) * PX + 8 * PX,
   y |-> (py + joff) - 12 * PX,
   w |-> (PLAYER_SIZE - 16) * PX,
   h |-> 24 * PX]

EntityRect(ent) ==
  [x |-> ent.x - (ent.size * PX) \div 2,
   y |-> LaneCenterY(ent.lane) - (ent.size * PX) \div 2,
   w |-> ent.size * PX,
   h |-> ent.size * PX]

Overlaps(p, e) ==
  /\ p.x < e.x + e.w
  /\ p.x + p.w > e.x
  /\ p.y < e.y + e.h
  /\ p.y + p.h > e.y

\* variant: any airborne offset counts as clearing the obstacle
IsJumpingOverAnyHeight(joff) == joff < 0

IsJumpingOverObstacles(joff) == joff < -(JUMP_CLEARANCE * PX)

\* ------------------------------------------------------------------------
\* Runner: the collision sweep of gameLoop
\*   for (let i = entities.length - 1; i >= 0; i--) { ... }
\* st carries the refs the sweep writes; i is the 1-based index.
\* ------------------------------------------------------------------------
\* variant: the shield breaks but the obstacle is not spliced out
ShieldedHitKeepsObstacle(st, i) ==
  [st EXCEPT !.shield = FALSE,
             !.cc = 0, !.cm = 1, !.ct = 0,
             !.fx = @ \cup {"shieldBroken"},
             !.hit = @ \cup {st.ents[i].id}]

ShieldedHit(st, i) ==
  [st EXCEPT !.shield = FALSE,
             !.ents = RemoveAt(@, i),
             !.cc = 0, !.cm = 1, !.ct = 0,
             !.fx = @ \cup {"shieldBroken"},
             !.hit = @ \cup {st.ents[i].id}]

FatalHit(st, i) ==
  [st EXCEPT !.over = TRUE,
             !.fx = @ \cup {"gameOver"},
             !.hit = @ \cup {st.ents[i].id}]

CoinHit(st, i) ==
  LET count == st.cc + 1
      mult == ComboMultiplierFor(count)
  IN [st EXCEPT !.cc = count, !.ct = COMBO_WINDOW, !.cm = mult,
                !.score = @ + 50 * mult,
                !.ents = RemoveAt(@, i),
                !.fx = @ \cup {"coin"},
                !.hit = @ \cup {st.ents[i].id}]

ShieldPickup(st, i) ==
  [st EXCEPT !.shield = TRUE, !.score = @ + 25,
             !.ents = RemoveAt(@, i),
             !.fx = @ \cup {"shield"},
             !.hit = @ \cup {st.ents[i].id}]

SlowPickup(st, i) ==
  [st EXCEPT !.slow = SLOWMO_FRAMES, !.score = @ + 25,
             !.ents = RemoveAt(@, i),
             !.fx = @ \cup {"slow"},
             !.hit = @ \cup {st.ents[i].id}]

BlastPickup(st, i) ==
  [st EXCEPT !.score = @ + 100,
             !.ents = SeqFilterObstaclesAnd(@, st.ents[i]),
             !.fx = @ \cup {"blast"},
             !.hit = @ \cup {st.ents[i].id}]

RECURSIVE Sweep(_, _, _, _)
Sweep(i, st, p, jumpOver) ==
  IF i < 1 THEN st
  ELSE IF i > Len(st.ents)
    \* entities[i] is undefined after a blast shortened the list: ent.x throws
    THEN [st EXCEPT !.crashed = TRUE, !.fx = @ \cup {"typeError"}]
  ELSE
    LET ent == st.ents[i] IN
    IF ~Overlaps(p, EntityRect(ent)) THEN Sweep(i - 1, st, p, jumpOver)
    ELSE IF ent.type = "obstacle" /\ jumpOver
      THEN Sweep(i - 1, [st EXCEPT !.fx = @ \cup {"jumpedOver"}], p, jumpOver)
    ELSE IF ent.type = "obstacle"
      THEN IF st.shield THEN Sweep(i - 1, ShieldedHit(st, i), p, jumpOver)
           ELSE FatalHit(st, i)
    ELSE IF ent.type = "coin" THEN Sweep(i - 1, CoinHit(st, i), p, jumpOver)
    ELSE IF ent.type = "powerup_shield"
      THEN Sweep(i - 1, ShieldPickup(st, i), p, jumpOver)
    ELSE IF ent.type = "powerup_slow"
      THEN Sweep(i - 1, SlowPickup(st, i), p, jumpOver)
    ELSE Sweep(i - 1, BlastPickup(st, i), p, jumpOver)

\* ------------------------------------------------------------------------
\* Runner: spawnEntity.  A choice is the pair (lane, kind) drawn by the
\* Math.random() calls; kind "rival" carries the index of the rival drawn.
\* ------------------------------------------------------------------------
EntityTypes ==
  {"obstacle", "coin", "powerup_shield", "powerup_slow", "powerup_blast"}

\* rival indices (1-based) the level has unlocked:
\*   maxIndex = min(floor(level / 2) - 1, rivals.length - 1)
UnlockedRivals(level) == 1 .. Min(level \div 2, RIVAL_COUNT)

SpawnChoices(level) ==
  [lane : 0 .. LANE_COUNT - 1, type : EntityTypes, rival : {0}]
    \cup [lane : 0 .. LANE_COUNT - 1, type : {"obstacle"},
          rival : UnlockedRivals(level)]

NoSpawn == [lane |-> -1, type |-> "none", rival |-> 0]

NewEntity(id, c) ==
  [id |-> id, type |-> c.type, lane |-> c.lane,
   x |-> (CANVAS_WIDTH + 100) * PX,
   size |-> EntitySize(c.type), rival |-> c.rival]

\* entities.some(e => e.lane === lane && Math.abs(e.x - entity.x) < 300)
TooClose(ents, ent) ==
  \E k \in 1 .. Len(ents) :
     ents[k].lane = ent.lane /\ Abs(ents[k].x - ent.x) < SPAWN_DISTANCE * PX

\* variant: the entity is pushed without the tooClose test
SpawnEntityUnchecked(ents, id, c) == Append(ents, NewEntity(id, c))

SpawnEntity(ents, id, c) ==
  IF TooClose(ents, NewEntity(id, c)) THEN ents
  ELSE Append(ents, NewEntity(id, c))

\* the one-shot CHALLENGER announcement of spawnEntity
Announces(introduced, c) == c.rival # 0 /\ c.rival \notin introduced

\* ------------------------------------------------------------------------
\* Runner: actions
\* ------------------------------------------------------------------------
\* variant: the cancel is skipped, the registration stays pending
CancelSkipped(pending) == pending

\* if (ref.current) cancelAnimationFrame(ref.current): whether the
\* registration the ref names is still pending afterwards
CancelAnimationFrame(pending) == FALSE

\* the reset block of the start effect (gameState === PLAYING), run after
\* the cleanup of the effect's previous run
ResetRun ==
  /\ scoreRef' = 0
  /\ levelRef' = 1
  /\ speedRef' = INITIAL_SPEED
  /\ entitiesRef' = <<>>
  /\ introducedRivalsRef' = {}
  /\ playerLaneRef' = 2
  /\ playerYRef' = (5 * LANE_HEIGHT * PX) \div 2
  /\ playerOffsetXRef' = 0
  /\ isJumpingRef' = FALSE
  /\ jumpVelocityRef' = 0
  /\ jumpOffsetYRef' = 0
  /\ framesRef' = 0
  /\ slowMoTimerRef' = 0
  /\ shieldActiveRef' = FALSE
  /\ pausedRef' = FALSE
  /\ comboCountRef' = 0
  /\ comboMultiplierRef' = 1
  /\ comboTimerRef' = 0
  \* cancel (cleanup, then line 1092), then requestAnimationFrame(gameLoop)
  /\ reqRef' = TRUE
  /\ reqOrphans' = reqOrphans
       + (IF CancelAnimationFrame(CancelAnimationFrame(reqRef)) THEN 1 ELSE 0)

\* App.startGame (menu start or retry) followed by GameCanvas's start effect
StartGame ==
  /\ gameState \in {"MENU", "GAME_OVER"}
  /\ UNCHANGED notRunnerVars
  /\ gameState' = "PLAYING"
  /\ ResetRun
  /\ gameOverCalls' = 0
  /\ crashed' = FALSE
  /\ hadCollision' = FALSE
  /\ everPaused' = FALSE
  /\ lastFx' = [kind |-> "start", fx |-> {}, hit |-> {}]
  /\ UNCHANGED <<ticks, keys>>

\* the theme or character prop changes during a run: gameLoop is re-created,
\* the start effect cleans up and runs again, which resets the run
PropChange ==
  /\ gameState = "PLAYING"
  /\ UNCHANGED notRunnerVars
  /\ UNCHANGED gameState
  /\ ResetRun
  /\ gameOverCalls' = 0
  /\ crashed' = FALSE
  /\ hadCollision' = FALSE
  /\ everPaused' = FALSE
  /\ lastFx' = [kind |-> "start", fx |-> {"propChange"}, hit |-> {}]
  /\ UNCHANGED <<ticks, keys>>

\* GameCanvas unmounts: the cleanup of the start effect
Unmount ==
  /\ gameState \in {"MENU", "PLAYING", "GAME_OVER"}
  /\ UNCHANGED notRunnerVars
  /\ gameState' = "UNMOUNTED"
  /\ reqRef' = CancelAnimationFrame(reqRef)
  /\ lastFx' = [kind |-> "unmount", fx |-> {}, hit |-> {}]
  /\ UNCHANGED <<reqOrphans, framesRef, scoreRef, levelRef, speedRef,
       slowMoTimerRef, shieldActiveRef, pausedRef, comboCountRef,
       comboMultiplierRef, comboTimerRef, playerLaneRef, playerYRef,
       playerOffsetXRef, isJumpingRef, jumpVelocityRef, jumpOffsetYRef,
       entitiesRef, introducedRivalsRef, gameOverCalls, crashed,
       hadCollision, everPaused, ticks, keys>>

\* a frame callback that finds pausedRef set: only framesRef moves
PausedFrame ==
  /\ framesRef' = framesRef + 1
  /\ everPaused' = TRUE
  /\ lastFx' = [kind |-> "pausedFrame", fx |-> {}, hit |-> {}]
  /\ UNCHANGED <<gameState, reqRef, reqOrphans, scoreRef, levelRef, speedRef,
       slowMoTimerRef, shieldActiveRef, pausedRef, comboCountRef,
       comboMultiplierRef, comboTimerRef, playerLaneRef, playerYRef,
       playerOffsetXRef, isJumpingRef, jumpVelocityRef, jumpOffsetYRef,
       entitiesRef, introducedRivalsRef, gameOverCalls, crashed,
       hadCollision>>

\* the level-up check of the distance-score branch
LevelUpDue(score, level) == score >= level * LEVEL_SCORE_THRESHOLD
\* variant: the increment applied without Math.min
SpeedAfterLevelUpUnclamped(speed) == speed + SPEED_INCREMENT
SpeedAfterLevelUp(speed) == Min(MAX_SPEED, speed + SPEED_INCREMENT)

\* the distance award: every SCORE_INTERVAL-th frame
AwardDue(f) == f % SCORE_INTERVAL = 0

\* variant: the combo reset in the frame that takes the timer to 0
ComboDecayOnLastTick(cc, cm, ct) ==
  IF ct > 1 THEN [cc |-> cc, cm |-> cm, ct |-> ct - 1]
  ELSE IF cc > 0 THEN [cc |-> 0, cm |-> 1, ct |-> 0]
  ELSE [cc |-> cc, cm |-> cm, ct |-> 0]

\* combo timer decay: [count, multiplier, timer] after the decay block
ComboDecay(cc, cm, ct) ==
  IF ct > 0 THEN [cc |-> cc, cm |-> cm, ct |-> ct - 1]
  ELSE IF cc > 0 THEN [cc |-> 0, cm |-> 1, ct |-> ct]
  ELSE [cc |-> cc, cm |-> cm, ct |-> ct]

\* effectiveSpeed of the frame about to run (halved while slow-motion lasts)
EffectiveSpeed == IF slowMoTimerRef > 0 THEN speedRef \div 2 ELSE speedRef

\* playerY after the lerp towards the target lane's centre
LerpedPlayerY ==
  playerYRef + LaneLerp(LaneCenterY(playerLaneRef) - playerYRef)

\* jump physics: gravity, integration, landing at offset >= 0.  The refs
\* are doubles: the one sum that is 0 in exact arithmetic, the 49th frame of
\* a jump (-15 * 49 + 0.6 * 1225), is -3.04e-13 after 49 double additions of
\* velocities built from 0.6, so that the test fails there and the jump
\* lands one frame later.
JumpLands == jumpOffsetYRef + (jumpVelocityRef + GRAVITY) > 0

\* variant: the offset is not put back to 0 on landing
JumpedOffsetYUnclamped ==
  IF ~isJumpingRef THEN jumpOffsetYRef
  ELSE jumpOffsetYRef + (jumpVelocityRef + GRAVITY)

JumpedOffsetY ==
  IF ~isJumpingRef THEN jumpOffsetYRef
  ELSE IF JumpLands THEN 0
  ELSE jumpOffsetYRef + (jumpVelocityRef + GRAVITY)

\* horizontal offset decay, 2 px per frame towards 0
DecayedOffsetX ==
  IF playerOffsetXRef > 0 THEN Max(0, playerOffsetXRef - 2 * PX)
  ELSE IF playerOffsetXRef < 0 THEN Min(0, playerOffsetXRef + 2 * PX)
  ELSE playerOffsetXRef

\* variant: the loop registers the next callback even after onGameOver
RequestsNextFrameAfterGameOver(over, threw) == ~threw

\* gameLoop reaches requestAnimationFrame(gameLoop) only on a normal return:
\* the fatal branch returns before it, a thrown TypeError unwinds past it
RequestsNextFrame(over, threw) == ~over /\ ~threw

\* a frame callback with pausedRef clear: the whole update phase
ActiveFrame ==
  LET f == framesRef + 1
      eff == EffectiveSpeed
      slow1 == IF slowMoTimerRef > 0 THEN slowMoTimerRef - 1 ELSE slowMoTimerRef
      score1 == IF AwardDue(f) THEN scoreRef + DISTANCE_AWARD ELSE scoreRef
      up == AwardDue(f) /\ LevelUpDue(score1, levelRef)
      level1 == IF up THEN levelRef + 1 ELSE levelRef
      speed1 == IF up THEN SpeedAfterLevelUp(speedRef) ELSE speedRef
      py1 == LerpedPlayerY
      jv1 == jumpVelocityRef + GRAVITY
      landed == JumpLands
      joff1 == JumpedOffsetY
      offx1 == DecayedOffsetX
      due == f % SpawnRate(eff) = 0
      cd == ComboDecay(comboCountRef, comboMultiplierRef, comboTimerRef)
  IN \E c \in (IF due THEN SpawnChoices(level1) ELSE {NoSpawn}) :
     LET ents1 == IF due THEN SpawnEntity(entitiesRef, f, c) ELSE entitiesRef
         ents2 == ScrollEntities(ents1, eff)
         st0 == [ents |-> ents2, shield |-> shieldActiveRef,
                 cc |-> cd.cc, cm |-> cd.cm, ct |-> cd.ct,
                 score |-> score1, slow |-> slow1,
                 over |-> FALSE, crashed |-> FALSE,
                 fx |-> IF due /\ Announces(introducedRivalsRef, c)
                          THEN {"challenger"} ELSE {},
                 hit |-> {}]
         res == Sweep(Len(ents2), st0, PlayerRect(py1, offx1, joff1),
                      IsJumpingOverObstacles(joff1))
     IN /\ framesRef' = f
        /\ scoreRef' = res.score
        /\ levelRef' = level1
        /\ speedRef' = speed1
        /\ slowMoTimerRef' = res.slow
        /\ shieldActiveRef' = res.shield
        /\ comboCountRef' = res.cc
        /\ comboMultiplierRef' = res.cm
        /\ comboTimerRef' = res.ct
        /\ playerYRef' = py1
        /\ playerOffsetXRef' = offx1
        /\ isJumpingRef' = (isJumpingRef /\ ~landed)
        /\ jumpVelocityRef' = IF ~isJumpingRef THEN jumpVelocityRef
                              ELSE IF landed THEN 0 ELSE jv1
        /\ jumpOffsetYRef' = joff1
        /\ entitiesRef' = res.ents
        /\ introducedRivalsRef' =
             IF due /\ c.rival # 0 THEN introducedRivalsRef \cup {c.rival}
             ELSE introducedRivalsRef
        \* onGameOver -> App.handleGameOver -> setGameState(GAME_OVER)
        /\ gameOverCalls' = IF res.over THEN gameOverCalls + 1 ELSE gameOverCalls
        /\ gameState' = IF res.over THEN "GAME_OVER" ELSE gameState
        /\ crashed' = res.crashed
        /\ reqRef' = RequestsNextFrame(res.over, res.crashed)
        /\ hadCollision' = (hadCollision \/ res.hit # {})
        /\ lastFx' = [kind |-> "frame", fx |-> res.fx, hit |-> res.hit]
        /\ UNCHANGED <<pausedRef, playerLaneRef, everPaused, reqOrphans>>

\* gameLoop, run by the pending requestAnimationFrame registration
Frame ==
  /\ gameState = "PLAYING"
  /\ UNCHANGED notRunnerVars
  /\ reqRef
  /\ ticks < MaxTicks
  /\ ticks' = ticks + 1
  /\ UNCHANGED keys
  /\ IF pausedRef THEN PausedFrame ELSE ActiveFrame

\* variant: movement input is taken while paused as well
AcceptsInputAlways(paused) == TRUE

\* "if (pausedRef.current) return;" of handleKeyDown and handleTouch
AcceptsInput(paused) == ~paused

\* variant: the jump key starts a jump whether airborne or not
CanJumpAlways(jumping) == TRUE

\* "key === ' ' && !isJumpingRef.current"
CanJump(jumping) == ~jumping

KeyNames == {"escape", "p", "arrowup", "arrowdown", "arrowleft", "arrowright", " ", "x"}

\* handleKeyDown
KeyDown(key) ==
  /\ gameState = "PLAYING"
  /\ UNCHANGED notRunnerVars
  /\ keys < MaxKeys
  /\ keys' = keys + 1
  /\ lastFx' = [kind |-> "key", fx |-> {key}, hit |-> {}]
  /\ IF key \in {"escape", "p"}
       THEN /\ pausedRef' = ~pausedRef
            /\ UNCHANGED <<playerLaneRef, playerOffsetXRef, isJumpingRef,
                           jumpVelocityRef>>
     ELSE IF ~AcceptsInput(pausedRef)
       THEN UNCHANGED <<pausedRef, playerLaneRef, playerOffsetXRef,
                        isJumpingRef, jumpVelocityRef>>
     ELSE /\ pausedRef' = pausedRef
          /\ playerLaneRef' =
               IF key = "arrowup" THEN Max(0, playerLaneRef - 1)
               ELSE IF key = "arrowdown"
                 THEN Min(LANE_COUNT - 1, playerLaneRef + 1)
               ELSE playerLaneRef
          /\ playerOffsetXRef' =
               IF key = "arrowleft" THEN Max(-60 * PX, playerOffsetXRef - 15 * PX)
               ELSE IF key = "arrowright"
                 THEN Min(60 * PX, playerOffsetXRef + 15 * PX)
               ELSE playerOffsetXRef
          /\ isJumpingRef' = (isJumpingRef \/ key = " ")
          /\ jumpVelocityRef' =
               IF key = " " /\ CanJump(isJumpingRef) THEN JUMP_VELOCITY
               ELSE jumpVelocityRef
  /\ UNCHANGED <<gameState, reqRef, reqOrphans, framesRef, scoreRef, levelRef, speedRef,
       slowMoTimerRef, shieldActiveRef, comboCountRef, comboMultiplierRef,
       comboTimerRef, playerYRef, jumpOffsetYRef, entitiesRef,
       introducedRivalsRef, gameOverCalls, crashed, hadCollision, everPaused,
       ticks>>

KeyPress == \E key \in KeyNames : KeyDown(key)

\* handleTouch: upper half of the viewport hops up a lane, lower half down
Touch ==
  /\ gameState = "PLAYING"
  /\ UNCHANGED notRunnerVars
  /\ keys < MaxKeys
  /\ keys' = keys + 1
  /\ \E upper \in BOOLEAN :
       /\ playerLaneRef' =
            IF ~AcceptsInput(pausedRef) THEN playerLaneRef
            ELSE IF upper THEN Max(0, playerLaneRef - 1)
            ELSE Min(LANE_COUNT - 1, playerLaneRef + 1)
       /\ lastFx' = [kind |-> "touch", fx |-> {}, hit |-> {}]
  /\ UNCHANGED <<gameState, reqRef, reqOrphans, framesRef, scoreRef, levelRef, speedRef,
       slowMoTimerRef, shieldActiveRef, pausedRef, comboCountRef,
       comboMultiplierRef, comboTimerRef, playerYRef, playerOffsetXRef,
       isJumpingRef, jumpVelocityRef, jumpOffsetYRef, entitiesRef,
       introducedRivalsRef, gameOverCalls, crashed, hadCollision, everPaused,
       ticks>>

\* ------------------------------------------------------------------------
\* Runner: initial states.  Besides the state after construction (the menu,
\* refs at their useRef values) the exploration starts from run states that
\* earlier frames of a run produce: an entity spawned at frame s sits at
\* 1100 - speed * (frames - s + 1), spawns fall on multiples of 50, the
\* speed is the result of level - 1 level-ups, the multiplier the one the
\* last coin pickup assigned.
\* ------------------------------------------------------------------------
Ent(id, type, lane, xpx) ==
  [id |-> id, type |-> type, lane |-> lane, x |-> xpx * PX,
   size |-> EntitySize(type), rival |-> 0]

BaseRun ==
  [gs |-> "PLAYING", frames |-> 0, score |-> 0, level |-> 1,
   speed |-> INITIAL_SPEED, shield |-> FALSE, cc |-> 0, ct |-> 0, ents |-> <<>>,
   paused |-> FALSE, jv |-> 0, joff |-> 0]

\* frame 280 of a level-1 run: entities spawned at frames 50..250
NearScenarios ==
  {[BaseRun EXCEPT !.frames = 280, !.score = 140, !.shield = sh,
                   !.ents = <<Ent(100, ty, 2, 195)>>] :
      sh \in BOOLEAN, ty \in {"obstacle"}}
  \cup
  {[BaseRun EXCEPT !.frames = 280, !.score = 140,
                   !.ents = <<Ent(100, ty, 2, 195)>>] :
      ty \in {"powerup_shield", "powerup_slow", "powerup_blast"}}
  \cup
  {[BaseRun EXCEPT !.frames = 280, !.score = 140, !.shield = TRUE,
                   !.cc = 4, !.ct = 100,
                   !.ents = <<Ent(100, "obstacle", 2, 195)>>],
   [BaseRun EXCEPT !.frames = 280, !.score = 140,
                   !.ents = <<Ent(50, "obstacle", 4, -55),
                              Ent(100, "powerup_blast", 2, 195),
                              Ent(150, "obstacle", 1, 445)>>],
   [BaseRun EXCEPT !.frames = 280, !.score = 140,
                   !.ents = <<Ent(50, "obstacle", 4, -55),
                              Ent(100, "powerup_blast", 2, 195),
                              Ent(150, "coin", 1, 445)>>]}

ComboScenarios ==
  {[BaseRun EXCEPT !.frames = 280, !.score = 140 + 50 * k[1],
                   !.cc = k[1], !.ct = k[2],
                   !.ents = <<Ent(100, "coin", 2, 195)>>] :
      k \in {<<0, 0>>, <<3, 1>>, <<4, 100>>, <<9, 100>>, <<19, 100>>,
             <<20, 100>>}}

\* frame 276: an obstacle one lane above the player, reached mid-jump
JumpScenarios ==
  {[BaseRun EXCEPT !.frames = 276, !.score = 130, !.shield = sh,
                   !.ents = <<Ent(100, "obstacle", 1, 215)>>] :
      sh \in BOOLEAN}

\* runs scored by distance alone, one frame before an award
LevelScenarios ==
  {[BaseRun EXCEPT !.frames = 19],
   [BaseRun EXCEPT !.frames = 499, !.score = 240,
                   !.ents = <<Ent(300, "obstacle", 0, 100),
                              Ent(350, "obstacle", 4, 350),
                              Ent(400, "obstacle", 0, 600),
                              Ent(450, "obstacle", 4, 850)>>]}

\* long runs one frame before the award that crosses the level threshold
\* (distance score plus the 25 of a shield pickup): 49 level-ups of 0.3 have
\* taken the speed from 5 to 19.7, the 50th takes it to 20
SpeedCapScenarios ==
  {[BaseRun EXCEPT !.frames = 24959, !.score = 12495, !.level = 50,
                   !.speed = 1970, !.shield = TRUE,
                   !.ents = <<Ent(24950, "obstacle", 0, 903)>>],
   [BaseRun EXCEPT !.frames = 25459, !.score = 12745, !.level = 51,
                   !.speed = 2000, !.shield = TRUE,
                   !.ents = <<Ent(25450, "obstacle", 0, 900)>>]}

\* frame 281: Escape was pressed after frame 280 and one callback has run
\* while paused (the counter moved, the entities did not)
PausedScenarios ==
  {[BaseRun EXCEPT !.frames = 281, !.score = 140, !.paused = TRUE,
                   !.ents = <<Ent(100, ty, 2, 195)>>] :
      ty \in {"obstacle", "coin"}}

\* frame 282: the jump key was pressed after frame 280; two frames of
\* gravity have taken the velocity from -15 to -13.8 and the offset to -28.2
\* frame 326: the same jump 46 frames on, descending at 12.6, offset -41.4
AirborneScenarios ==
  {[BaseRun EXCEPT !.frames = 282, !.score = 140,
                   !.jv = JUMP_VELOCITY + 2 * GRAVITY,
                   !.joff = 2 * JUMP_VELOCITY + 3 * GRAVITY,
                   !.ents = <<Ent(100, "coin", 4, 185)>>],
   [BaseRun EXCEPT !.frames = 326, !.score = 160,
                   !.jv = JUMP_VELOCITY + 46 * GRAVITY,
                   !.joff = 46 * JUMP_VELOCITY + 1081 * GRAVITY,
                   !.ents = <<Ent(300, "coin", 4, 965)>>]}

RunnerScenarios ==
  {[BaseRun EXCEPT !.gs = "MENU"]}
    \cup NearScenarios \cup ComboScenarios \cup JumpScenarios
    \cup LevelScenarios \cup SpeedCapScenarios \cup PausedScenarios
    \cup AirborneScenarios

RunnerStateOf(sc) ==
    /\ gameState = sc.gs
    /\ reqRef = (sc.gs = "PLAYING")
    /\ reqOrphans = 0
    /\ framesRef = sc.frames
    /\ scoreRef = sc.score
    /\ levelRef = sc.level
    /\ speedRef = sc.speed
    /\ slowMoTimerRef = 0
    /\ shieldActiveRef = sc.shield
    /\ pausedRef = sc.paused
    /\ comboCountRef = sc.cc
    /\ comboMultiplierRef = ComboMultiplierFor(sc.cc)
    /\ comboTimerRef = sc.ct
    /\ playerLaneRef = 2
    /\ playerYRef = (5 * LANE_HEIGHT * PX) \div 2
    /\ playerOffsetXRef = 0
    /\ isJumpingRef = (sc.joff # 0)
    /\ jumpVelocityRef = sc.jv
    /\ jumpOffsetYRef = sc.joff
    /\ entitiesRef = sc.ents
    /\ introducedRivalsRef = {}
    /\ gameOverCalls = 0
    /\ crashed = FALSE
    /\ hadCollision = (sc.frames > 19 /\ sc \notin LevelScenarios)
    /\ everPaused = sc.paused
    /\ lastFx = [kind |-> "init", fx |-> {}, hit |-> {}]
    /\ ticks = 0
    /\ keys = 0

RunnerInit == \E sc \in RunnerScenarios : RunnerStateOf(sc)

\* the menu, no run started
RunnerIdle == RunnerStateOf([BaseRun EXCEPT !.gs = "MENU"])

\* the App shows the drift race: GameCanvas is rendered, not playing
RunnerAway == RunnerStateOf([BaseRun EXCEPT !.gs = "DRIFT_ATTACK"])

RunnerNext ==
  StartGame \/ PropChange \/ Unmount \/ Frame \/ KeyPress \/ Touch

\* ------------------------------------------------------------------------
\* Elimination: program constants.  Positions and velocities are kept in
\* tenths of a pixel, the speed multiplier in tenths.
\* ------------------------------------------------------------------------
MaxElimTicks == 12    \* frames explored per behaviour (elimination)
MaxElimClicks == 1    \* "CHANGE FIGHTER" / "HOME" clicks explored per behaviour
MaxOnWinCalls == 2    \* onWin invocations explored per match
MaxModePicks == 1     \* game mode picks explored per behaviour
MaxNormalScale == 1000  \* squared length of the collision normals checked exactly

BASE_ARENA_WIDTH == 7500
BASE_ARENA_HEIGHT == 4500
AVATAR_RADIUS == 300
COLLISION_FLASH_DURATION == 10
WINNER_CELEBRATION_FRAMES == 180

\* GAME_MODES: lives, speedInterval (frames), speedIncrement (tenths)
GameModes ==
  [classic  |-> [lives |-> 10, speedInterval |-> 8 * 60, speedIncrement |-> 4],
   blitz    |-> [lives |-> 5,  speedInterval |-> 4 * 60, speedIncrement |-> 8],
   marathon |-> [lives |-> 20, speedInterval |-> 12 * 60, speedIncrement |-> 2]]

\* the matches explored use the default difficulty: fighterCount = 8
FighterCount == 8
ArenaWidth == Min(BASE_ARENA_WIDTH + (FighterCount - 8) * 150, 9000)
ArenaHeight == Min(BASE_ARENA_HEIGHT + (FighterCount - 8) * 80, 5500)

TruncDiv(a, b) == IF a >= 0 THEN a \div b ELSE -((-a) \div b)

\* floor of Math.sqrt for the distances a collision test can see
Isqrt(n) == CHOOSE r \in 0 .. 2 * AVATAR_RADIUS * 2 :
              r * r <= n /\ (r + 1) * (r + 1) > n

\* calculateScore
CalculateScore(finalPlacement, totalFighters, survivedSeconds) ==
  (totalFighters - finalPlacement + 1) * 100
    + survivedSeconds * 10
    + (IF finalPlacement = 1 THEN 500 ELSE 0)

\* combatant.x += combatant.vx * speedMultiplierRef.current (mult in tenths)
IntegratedX(c, mult) == c.x + TruncDiv(c.vx * mult, 10)
\* combatant.y += combatant.vy * speedMultiplierRef.current
IntegratedY(c, mult) == c.y + TruncDiv(c.vy * mult, 10)

\* variant: the wall collision negates the velocity component
MoveCombatantFlipping(c, mult) ==
  LET x1 == IntegratedX(c, mult)
      y1 == IntegratedY(c, mult)
      left == x1 - AVATAR_RADIUS < 0
      right == ~left /\ x1 + AVATAR_RADIUS > ArenaWidth
      top == y1 - AVATAR_RADIUS < 0
      bottom == ~top /\ y1 + AVATAR_RADIUS > ArenaHeight
  IN [c EXCEPT
        !.x = IF left THEN AVATAR_RADIUS
              ELSE IF right THEN ArenaWidth - AVATAR_RADIUS ELSE x1,
        !.vx = IF left \/ right THEN -c.vx ELSE c.vx,
        !.y = IF top THEN AVATAR_RADIUS
              ELSE IF bottom THEN ArenaHeight - AVATAR_RADIUS ELSE y1,
        !.vy = IF top \/ bottom THEN -c.vy ELSE c.vy,
        !.flashTime = IF c.flashTime > 0 THEN c.flashTime - 1 ELSE c.flashTime]

\* position update and wall collision of one active combatant
MoveCombatant(c, mult) ==
  LET x1 == IntegratedX(c, mult)
      y1 == IntegratedY(c, mult)
      left == x1 - AVATAR_RADIUS < 0
      right == ~left /\ x1 + AVATAR_RADIUS > ArenaWidth
      top == y1 - AVATAR_RADIUS < 0
      bottom == ~top /\ y1 + AVATAR_RADIUS > ArenaHeight
  IN [c EXCEPT
        !.x = IF left THEN AVATAR_RADIUS
              ELSE IF right THEN ArenaWidth - AVATAR_RADIUS ELSE x1,
        !.vx = IF left THEN Abs(c.vx)
               ELSE IF right THEN -Abs(c.vx) ELSE c.vx,
        !.y = IF top THEN AVATAR_RADIUS
              ELSE IF bottom THEN ArenaHeight - AVATAR_RADIUS ELSE y1,
        !.vy = IF top THEN Abs(c.vy)
               ELSE IF bottom THEN -Abs(c.vy) ELSE c.vy,
        !.flashTime = IF c.flashTime > 0 THEN c.flashTime - 1 ELSE c.flashTime]

\* distance < c1.radius + c2.radius
Touching(c1, c2) ==
  LET dx == c2.x - c1.x
      dy == c2.y - c1.y
      minDistance == 2 * AVATAR_RADIUS
  IN /\ Abs(dx) < minDistance
     /\ Abs(dy) < minDistance
     /\ dx * dx + dy * dy < minDistance * minDistance

\* a life counter that is not decremented once its owner is out
LivesAfterHitSparingOut(c) == IF c.eliminated THEN c.lives ELSE c.lives - 1

\* c.lives--
LivesAfterHit(c) == c.lives - 1

\* the order tag of c2 when every elimination takes a tag of its own
OrderOfSecondSeparate(order, c1Just, c2Just) ==
  IF c1Just THEN order + 2 ELSE order + 1

\* the order tag c2 receives when it is eliminated in this collision
OrderOfSecond(order, c1Just, c2Just) ==
  IF c1Just /\ c2Just THEN order + 1
  ELSE IF c1Just THEN order + 2 ELSE order + 1

\* an order counter that advances twice for an elimination on its own
OrderAfterSkipping(order, c1Just, c2Just) ==
  IF c1Just /\ c2Just THEN order + 1
  ELSE order + (IF c1Just THEN 2 ELSE 0) + (IF c2Just THEN 2 ELSE 0)

\* eliminationOrderRef.current after the collision
OrderAfter(order, c1Just, c2Just) ==
  IF c1Just /\ c2Just THEN order + 1
  ELSE order + (IF c1Just THEN 1 ELSE 0) + (IF c2Just THEN 1 ELSE 0)

RECURSIVE Gcd(_, _)
Gcd(a, b) == IF b = 0 THEN a ELSE Gcd(b, a % b)

\* Math.cos and Math.sin of Math.atan2(dy, dx): the direction of (dx, dy),
\* kept as the shortest integer vector (cos, sin) * sqrt(scale) along it;
\* Math.atan2(0, 0) is 0
Direction(dx, dy) ==
  IF dx = 0 /\ dy = 0 THEN [cos |-> 1, sin |-> 0, scale |-> 1]
  ELSE LET g == Gcd(Abs(dx), Abs(dy))
           cx == TruncDiv(dx, g)
           sy == TruncDiv(dy, g)
       IN [cos |-> cx, sin |-> sy, scale |-> cx * cx + sy * sy]

\* variant: c2 keeps its own velocity along the normal
ExchangeVelocitiesOneWay(c1, c2, dx, dy) ==
  LET d == Direction(dx, dy)
      cos == d.cos
      sin == d.sin
      v1x == c1.vx * cos + c1.vy * sin
      v1y == c1.vy * cos - c1.vx * sin
      v2x == c2.vx * cos + c2.vy * sin
      v2y == c2.vy * cos - c2.vx * sin
      newV1x == v2x
      newV2x == v2x
  IN [scale |-> d.scale,
      c1vx |-> newV1x * cos - v1y * sin, c1vy |-> v1y * cos + newV1x * sin,
      c2vx |-> newV2x * cos - v2y * sin, c2vy |-> v2y * cos + newV2x * sin]

\* "Elastic collision - exchange velocities": rotate into the frame of the
\* normal, swap the components along it, rotate back.  The four results are
\* exact, as multiples of 1 / scale
ExchangeVelocities(c1, c2, dx, dy) ==
  LET d == Direction(dx, dy)
      cos == d.cos
      sin == d.sin
      v1x == c1.vx * cos + c1.vy * sin
      v1y == c1.vy * cos - c1.vx * sin
      v2x == c2.vx * cos + c2.vy * sin
      v2y == c2.vy * cos - c2.vx * sin
      temp == v1x
      newV1x == v2x
      newV2x == temp
  IN [scale |-> d.scale,
      c1vx |-> newV1x * cos - v1y * sin, c1vy |-> v1y * cos + newV1x * sin,
      c2vx |-> newV2x * cos - v2y * sin, c2vy |-> v2y * cos + newV2x * sin]

\* the body of "if (distance < minDistance)": st = [cs, order, log]
ResolveCollision(st, a, b) ==
  LET c1 == st.cs[a]
      c2 == st.cs[b]
      dx == c2.x - c1.x
      dy == c2.y - c1.y
      d2 == dx * dx + dy * dy
      distance == Isqrt(d2)
      overlap == 2 * AVATAR_RADIUS - distance
      l1 == LivesAfterHit(c1)
      l2 == LivesAfterHit(c2)
      c1Just == l1 <= 0 /\ ~c1.eliminated
      c2Just == l2 <= 0 /\ ~c2.eliminated
      \* each tag is the counter as it stands after its own increment
      order1 == OrderAfter(st.order, c1Just, c2Just)
      o1 == order1
      o2 == IF c1Just /\ c2Just
              THEN OrderOfSecond(st.order, c1Just, c2Just)
            ELSE order1
      sepX == IF distance = 0 THEN 0 ELSE TruncDiv(dx * overlap, 2 * distance)
      sepY == IF distance = 0 THEN 0 ELSE TruncDiv(dy * overlap, 2 * distance)
      \* the exchanged velocities, as the change each component takes
      E == ExchangeVelocities(c1, c2, dx, dy)
      ex == TruncDiv(E.c1vx - c1.vx * E.scale, E.scale)
      ey == TruncDiv(E.c1vy - c1.vy * E.scale, E.scale)
      n1 == [c1 EXCEPT !.flashTime = COLLISION_FLASH_DURATION,
                       !.lives = l1,
                       !.eliminated = c1.eliminated \/ c1Just,
                       !.eliminationOrder = IF c1Just THEN o1 ELSE @,
                       !.x = @ - sepX, !.y = @ - sepY,
                       !.vx = @ + ex, !.vy = @ + ey]
      n2 == [c2 EXCEPT !.flashTime = COLLISION_FLASH_DURATION,
                       !.lives = l2,
                       !.eliminated = c2.eliminated \/ c2Just,
                       !.eliminationOrder = IF c2Just THEN o2 ELSE @,
                       !.x = @ + sepX, !.y = @ + sepY,
                       !.vx = @ - ex, !.vy = @ - ey]
  IN [cs |-> [st.cs EXCEPT ![a] = n1, ![b] = n2],
      order |-> order1,
      log |-> Append(st.log, [a |-> a, b |-> b,
                              la |-> c1.lives, lb |-> c2.lives,
                              ea |-> c1.eliminated, eb |-> c2.eliminated,
                              ob |-> st.order, oa |-> order1])]

\* the double loop over activeCombatants (act: the indices, in array order)
RECURSIVE CollidePairs(_, _, _, _)
CollidePairs(st, act, i, j) ==
  IF i > Len(act) THEN st
  ELSE IF j > Len(act) THEN CollidePairs(st, act, i + 1, i + 2)
  ELSE CHOOSE out \in
         { CollidePairs(next, act, i, j + 1) :
             next \in { IF Touching(st.cs[act[i]], st.cs[act[j]])
                          THEN ResolveCollision(st, act[i], act[j])
                        ELSE st } } : TRUE

RECURSIVE ActiveIndices(_, _)
\* combatants.filter(c => !c.eliminated), as indices from k on
ActiveIndices(cs, k) ==
  IF k > Len(cs) THEN <<>>
  ELSE IF cs[k].eliminated THEN ActiveIndices(cs, k + 1)
  ELSE <<k>> \o ActiveIndices(cs, k + 1)

PlacementOf(c, total) == total - c.eliminationOrder + 1

RECURSIVE RowsWithPlacement(_, _, _)
\* the rows of combatants.map(...) whose placement is pl, in array order
RowsWithPlacement(cs, pl, k) ==
  IF k > Len(cs) THEN <<>>
  ELSE LET row == [id |-> cs[k].id,
                   placement |-> IF cs[k].eliminated
                                   THEN PlacementOf(cs[k], Len(cs)) ELSE 1]
       IN (IF row.placement = pl THEN <<row>> ELSE <<>>)
            \o RowsWithPlacement(cs, pl, k + 1)

RECURSIVE LeaderboardFrom(_, _)
\* combatants.map(...).sort((a, b) => a.placement - b.placement): stable
LeaderboardFrom(cs, pl) ==
  IF pl > Len(cs) + 1 THEN <<>>
  ELSE RowsWithPlacement(cs, pl, 1) \o LeaderboardFrom(cs, pl + 1)

LeaderboardOf(cs) == LeaderboardFrom(cs, 1)

\* variant: the tag of the first combatant of the array taken for the highest
OrderOfFirst(cs, k) == cs[1].eliminationOrder

RECURSIVE MaxOrder(_, _)
MaxOrder(cs, k) ==
  IF k > Len(cs) THEN 0
  ELSE Max(cs[k].eliminationOrder, MaxOrder(cs, k + 1))

\* winners[0]?.character || combatants[0].character
FirstWithOrder(cs, o) ==
  IF \E k \in 1 .. Len(cs) : cs[k].eliminationOrder = o
    THEN cs[CHOOSE k \in 1 .. Len(cs) :
              /\ cs[k].eliminationOrder = o
              /\ \A m \in 1 .. k - 1 : cs[m].eliminationOrder # o].id
  ELSE cs[1].id

\* both combatants of logged collision e took their last life in it
IsTie(e) == e.la - 1 <= 0 /\ ~e.ea /\ e.lb - 1 <= 0 /\ ~e.eb

TiesIn(log) == Cardinality({n \in 1 .. Len(log) : IsTie(log[n])})

\* what a gameLoop closure holds of the render that created it
Closure(id, mode) == [id |-> id, mode |-> mode]
NoClosure == Closure(0, "none")

\* animationFrameRef.current: the chain whose registration it holds
CurrentLoop == [chain |-> "current", player |-> NoClosure]
StaleLoop(p) == [chain |-> "stale", player |-> p]

\* cancelAnimationFrame(animationFrameRef.current)
FrameAfterCancel ==
  IF animationFrameOwner = CurrentLoop THEN FALSE ELSE elimAnimationFrame

StaleAfterCancel ==
  IF animationFrameOwner.chain = "stale"
    THEN staleLoops \ {animationFrameOwner.player}
  ELSE staleLoops

\* the refs and state one run of gameLoop starts from, for the callback of
\* chain "chain" whose closure is cl
LoopState(chain, cl) ==
  [combatants |-> combatantsRef,
   speedMultiplier |-> speedMultiplierRef,
   frameCount |-> frameCountRef,
   eliminationOrder |-> eliminationOrderRef,
   playerEliminated |-> playerEliminatedRef,
   celebration |-> winnerCelebrationFramesRef,
   score |-> elimScore, placement |-> elimPlacement,
   winner |-> elimWinner, leaderboard |-> finalLeaderboard,
   ties |-> tiesSeen,
   chain |-> chain, player |-> cl.id, mode |-> cl.mode,
   stale |-> IF chain = "stale" THEN staleLoops \ {cl} ELSE staleLoops,
   owner |-> animationFrameOwner]

\* one run of gameLoop with a canvas, from the refs and state in "pre"
GameLoopBody(pre) ==
  LET mode == GameModes[pre.mode]
      fc == pre.frameCount + 1
      mult == IF fc % mode.speedInterval = 0
                THEN pre.speedMultiplier + mode.speedIncrement
              ELSE pre.speedMultiplier
      act == ActiveIndices(pre.combatants, 1)
      moved == [k \in 1 .. Len(pre.combatants) |->
                  IF pre.combatants[k].eliminated THEN pre.combatants[k]
                  ELSE MoveCombatant(pre.combatants[k], mult)]
  IN \E res \in {CollidePairs([cs |-> moved, order |-> pre.eliminationOrder,
                               log |-> <<>>], act, 1, 2)} :
     LET cs == res.cs
         total == Len(cs)
         survivedSeconds == fc \div 60
         hasPlayer == \E k \in 1 .. total : cs[k].id = pre.player
         player == cs[CHOOSE k \in 1 .. total :
                         hasPlayer => cs[k].id = pre.player]
         playerOut == hasPlayer /\ player.eliminated
         justOut == ~pre.playerEliminated /\ playerOut
         outPlacement == PlacementOf(player, total)
         single == Len(act) = 1
         winnerC == cs[act[1]]
         firstCelebration == single /\ pre.celebration = 0
         winPlacement == IF winnerC.id = pre.player THEN 1
                         ELSE IF playerOut THEN outPlacement ELSE total
         setAtWin == firstCelebration /\ ~(pre.playerEliminated \/ justOut)
         celebration == IF single THEN pre.celebration + 1 ELSE pre.celebration
         finished == \/ single /\ celebration >= WINNER_CELEBRATION_FRAMES
                     \/ Len(act) = 0 /\ total > 0
     IN /\ frameCountRef' = fc
        /\ speedMultiplierRef' = mult
        /\ combatantsRef' = cs
        /\ eliminationOrderRef' = res.order
        /\ collisionLog' = res.log
        /\ tiesSeen' = pre.ties + TiesIn(res.log)
        /\ playerEliminatedRef' = (pre.playerEliminated \/ justOut)
        /\ elimScore' =
             IF setAtWin
               THEN CalculateScore(winPlacement, total, survivedSeconds)
             ELSE IF justOut
               THEN CalculateScore(outPlacement, total, survivedSeconds)
             ELSE pre.score
        /\ elimPlacement' = IF setAtWin THEN winPlacement
                            ELSE IF justOut THEN outPlacement
                            ELSE pre.placement
        /\ winnerCelebrationFramesRef' = celebration
        /\ finalLeaderboard' = IF finished THEN LeaderboardOf(cs)
                               ELSE pre.leaderboard
        /\ elimWinner' = IF ~finished THEN pre.winner
                         ELSE IF single THEN winnerC.id
                         ELSE FirstWithOrder(cs, MaxOrder(cs, 1))
        \* requestAnimationFrame(gameLoop), unless the match is decided
        /\ elimAnimationFrame' =
             IF pre.chain = "current" THEN ~finished ELSE elimAnimationFrame
        /\ staleLoops' =
             IF pre.chain = "stale" /\ ~finished
               THEN pre.stale \cup {Closure(pre.player, pre.mode)}
             ELSE pre.stale
        /\ animationFrameOwner' =
             IF finished THEN pre.owner
             ELSE IF pre.chain = "current" THEN CurrentLoop
             ELSE StaleLoop(Closure(pre.player, pre.mode))

\* a requestAnimationFrame callback of the chain the latest start began
ElimFrame ==
  /\ elimAnimationFrame
  /\ UNCHANGED notElimVars
  /\ \/ /\ elimScreen # "arena"          \* if (!canvas) return
        /\ elimAnimationFrame' = FALSE
        /\ UNCHANGED <<combatantsRef, speedMultiplierRef, frameCountRef,
                       eliminationOrderRef, playerEliminatedRef,
                       winnerCelebrationFramesRef, elimWinner, elimScore,
                       elimPlacement, finalLeaderboard, staleLoops,
                       animationFrameOwner, tiesSeen, collisionLog,
                       elimTicks>>
     \/ /\ elimScreen = "arena"
        /\ elimTicks < MaxElimTicks
        /\ elimTicks' = elimTicks + 1
        /\ GameLoopBody(LoopState("current", Closure(loopPlayer, loopMode)))
  /\ UNCHANGED <<elimGameStarted, selectedCharacterId, selectedGameMode,
                 elimScreen, loopPlayer, loopMode, nameEntryTimers, winnerEffectRan,
                 eliminationWins, onWinCalls, elimClicksLeft,
                 modePicksLeft>>

\* a requestAnimationFrame callback of a chain an earlier start began; it
\* runs the gameLoop of that render on the refs of the component
StaleFrame ==
  /\ staleLoops # {}
  /\ UNCHANGED notElimVars
  /\ \E p \in staleLoops :
       \/ /\ elimScreen # "arena"        \* if (!canvas) return
          /\ staleLoops' = staleLoops \ {p}
          /\ UNCHANGED <<combatantsRef, speedMultiplierRef, frameCountRef,
                         eliminationOrderRef, playerEliminatedRef,
                         winnerCelebrationFramesRef, elimWinner, elimScore,
                         elimPlacement, finalLeaderboard, elimAnimationFrame,
                         animationFrameOwner, tiesSeen, collisionLog,
                         elimTicks>>
       \/ /\ elimScreen = "arena"
          /\ elimTicks < MaxElimTicks
          /\ elimTicks' = elimTicks + 1
          /\ GameLoopBody(LoopState("stale", p))
  /\ UNCHANGED <<elimGameStarted, selectedCharacterId, selectedGameMode,
                 elimScreen, loopPlayer, loopMode, nameEntryTimers, winnerEffectRan,
                 eliminationWins, onWinCalls, elimClicksLeft,
                 modePicksLeft>>

Cmb(id, x, y, vx, vy, lives, out, order) ==
  [id |-> id, x |-> x, y |-> y, vx |-> vx, vy |-> vy, lives |-> lives,
   eliminated |-> out, flashTime |-> 0, eliminationOrder |-> order]

\* starting layouts: Math.random() positions inside the padding, velocity
\* components below baseSpeed (classic 0.5 px per frame = 5 tenths)
StartLayouts ==
  { <<<<1000, 1000, 4, 3>>, <<2500, 1000, -4, 2>>, <<4000, 1000, 3, -3>>,
      <<5500, 1000, -2, 4>>, <<1000, 3000, 4, -1>>, <<2500, 3000, 1, 4>>,
      <<4000, 3000, -3, -3>>, <<5500, 3000, 2, -4>>>>,
    <<<<3000, 2000, 4, 0>>, <<3604, 2000, -4, 0>>, <<6000, 700, 0, 3>>,
      <<700, 3800, -3, 0>>, <<1500, 1000, 2, 2>>, <<5000, 3500, -1, -1>>,
      <<6800, 2200, 4, 1>>, <<2200, 3700, 0, -4>>>> }

\* initializeCombatants for one drawn layout
InitialCombatants(layout) ==
  [k \in 1 .. FighterCount |->
     Cmb(k, layout[k][1], layout[k][2], layout[k][3], layout[k][4],
         GameModes[selectedGameMode].lives, FALSE, 0)]

\* handleStart ("BEGIN ELIMINATION"): initializeCombatants(), then the first
\* gameLoop() call; a callback still pending from an earlier start is not
\* cancelled
HandleStart ==
  /\ elimScreen = "arena"
  /\ ~elimGameStarted
  /\ UNCHANGED notElimVars
  /\ elimWinner = 0
  /\ elimTicks < MaxElimTicks
  /\ elimTicks' = elimTicks + 1
  /\ elimGameStarted' = TRUE
  /\ loopPlayer' = selectedCharacterId
  /\ loopMode' = selectedGameMode
  /\ winnerEffectRan' = <<>>
  /\ onWinCalls' = 0
  /\ \E layout \in StartLayouts :
       GameLoopBody([combatants |-> InitialCombatants(layout),
                     speedMultiplier |-> 10,
                     frameCount |-> 0,
                     eliminationOrder |-> 0,
                     playerEliminated |-> FALSE,
                     celebration |-> 0,
                     score |-> 0, placement |-> 0,
                     winner |-> 0, leaderboard |-> finalLeaderboard,
                     ties |-> 0,
                     chain |-> "current", player |-> selectedCharacterId,
                     mode |-> selectedGameMode,
                     stale |-> IF elimAnimationFrame
                                 THEN staleLoops
                                        \cup {Closure(loopPlayer, loopMode)}
                               ELSE staleLoops,
                     owner |-> IF animationFrameOwner = CurrentLoop
                                 THEN StaleLoop(Closure(loopPlayer, loopMode))
                               ELSE animationFrameOwner])
  /\ UNCHANGED <<selectedCharacterId, selectedGameMode, elimScreen,
                 nameEntryTimers, eliminationWins, elimClicksLeft,
                 modePicksLeft>>

\* the winner effect, run after a render in which winner is set and one of
\* [winner, placement, onWin] differs from the last run; onWin is
\* handleEliminationWin of the App render, a new function whenever
\* eliminationWins has changed
WinnerEffect ==
  /\ elimWinner # 0
  /\ elimScreen # "home"
  /\ winnerEffectRan # <<elimWinner, elimPlacement, eliminationWins>>
  /\ UNCHANGED notElimVars
  /\ winnerEffectRan' = <<elimWinner, elimPlacement, eliminationWins>>
  /\ elimAnimationFrame' = FrameAfterCancel
  /\ staleLoops' = StaleAfterCancel
  /\ IF elimPlacement > 0 /\ elimPlacement <= 5
       THEN /\ onWinCalls < MaxOnWinCalls
            /\ onWinCalls' = onWinCalls + 1
            /\ eliminationWins' = eliminationWins + 1
       ELSE UNCHANGED <<onWinCalls, eliminationWins>>
  /\ nameEntryTimers' = nameEntryTimers + 1
  /\ UNCHANGED <<combatantsRef, speedMultiplierRef, frameCountRef,
                 eliminationOrderRef, playerEliminatedRef,
                 winnerCelebrationFramesRef, elimGameStarted, elimWinner,
                 elimScore, elimPlacement, selectedCharacterId,
                 selectedGameMode, finalLeaderboard, elimScreen, loopPlayer, loopMode,
                 animationFrameOwner, tiesSeen, collisionLog, elimTicks,
                 elimClicksLeft,
                 modePicksLeft>>

\* setTimeout(() => setShowNameEntry(true), 2000) fires
NameEntryTimeout ==
  /\ nameEntryTimers > 0
  /\ UNCHANGED notElimVars
  /\ nameEntryTimers' = nameEntryTimers - 1
  /\ elimScreen' = IF elimScreen \in {"home", "leaderboard"} THEN elimScreen
                   ELSE "nameEntry"
  /\ UNCHANGED <<combatantsRef, speedMultiplierRef, frameCountRef,
                 eliminationOrderRef, playerEliminatedRef,
                 winnerCelebrationFramesRef, elimAnimationFrame,
                 elimGameStarted, elimWinner, elimScore, elimPlacement,
                 selectedCharacterId, selectedGameMode, finalLeaderboard,
                 loopPlayer, loopMode, staleLoops, animationFrameOwner,
                 winnerEffectRan, eliminationWins, onWinCalls, tiesSeen,
                 collisionLog, elimTicks, elimClicksLeft,
                 modePicksLeft>>

\* "VIEW FINAL STANDINGS" on the name entry screen
ViewStandings ==
  /\ elimScreen = "nameEntry"
  /\ UNCHANGED notElimVars
  /\ elimScreen' = "leaderboard"
  /\ UNCHANGED <<combatantsRef, speedMultiplierRef, frameCountRef,
                 eliminationOrderRef, playerEliminatedRef,
                 winnerCelebrationFramesRef, elimAnimationFrame,
                 elimGameStarted, elimWinner, elimScore, elimPlacement,
                 selectedCharacterId, selectedGameMode, finalLeaderboard,
                 loopPlayer, loopMode, staleLoops, animationFrameOwner,
                 nameEntryTimers, winnerEffectRan, eliminationWins,
                 onWinCalls, tiesSeen, collisionLog, elimTicks,
                 elimClicksLeft,
                 modePicksLeft>>

\* the characters the fighter picker is exercised with: two of the match,
\* one that CHARACTERS.slice(0, fighterCount) leaves out
PickableCharacters == {1, 2, 9}

\* "CHANGE FIGHTER" below the arena: the character screen replaces the
\* arena and its canvas; nothing is cancelled
ChangeFighter ==
  /\ elimScreen = "arena"
  /\ elimClicksLeft > 0
  /\ UNCHANGED notElimVars
  /\ elimClicksLeft' = elimClicksLeft - 1
  /\ UNCHANGED modePicksLeft
  /\ elimScreen' = "characterSelect"
  /\ elimGameStarted' = FALSE
  /\ elimWinner' = 0
  /\ winnerEffectRan' = <<>>
  /\ UNCHANGED <<combatantsRef, speedMultiplierRef, frameCountRef,
                 eliminationOrderRef, playerEliminatedRef,
                 winnerCelebrationFramesRef, elimAnimationFrame, elimScore,
                 elimPlacement, selectedCharacterId, selectedGameMode,
                 finalLeaderboard, loopPlayer, loopMode, staleLoops,
                 animationFrameOwner, nameEntryTimers, eliminationWins,
                 onWinCalls, tiesSeen, collisionLog, elimTicks>>

\* a pick on the character screen, then "ENTER ARENA"
EnterArena ==
  /\ elimScreen = "characterSelect"
  /\ UNCHANGED notElimVars
  /\ elimScreen' = "arena"
  /\ \E id \in PickableCharacters : selectedCharacterId' = id
  /\ UNCHANGED <<combatantsRef, speedMultiplierRef, frameCountRef,
                 eliminationOrderRef, playerEliminatedRef,
                 winnerCelebrationFramesRef, elimAnimationFrame,
                 elimGameStarted, elimWinner, elimScore, elimPlacement,
                 selectedGameMode, finalLeaderboard, loopPlayer, loopMode, staleLoops,
                 animationFrameOwner, nameEntryTimers, winnerEffectRan,
                 eliminationWins, onWinCalls, tiesSeen, collisionLog,
                 elimTicks, elimClicksLeft,
                 modePicksLeft>>

\* "<- DIFFICULTY" on the character screen
BackToDifficulty ==
  /\ elimScreen = "characterSelect"
  /\ UNCHANGED notElimVars
  /\ elimScreen' = "difficultySelect"
  /\ UNCHANGED <<combatantsRef, speedMultiplierRef, frameCountRef,
                 eliminationOrderRef, playerEliminatedRef,
                 winnerCelebrationFramesRef, elimAnimationFrame,
                 elimGameStarted, elimWinner, elimScore, elimPlacement,
                 selectedCharacterId, selectedGameMode, finalLeaderboard, loopPlayer,
                 loopMode, staleLoops, animationFrameOwner, nameEntryTimers,
                 winnerEffectRan, eliminationWins, onWinCalls, tiesSeen,
                 collisionLog, elimTicks, elimClicksLeft,
                 modePicksLeft>>

\* "<- GAME MODE" on the difficulty screen
BackToGameMode ==
  /\ elimScreen = "difficultySelect"
  /\ UNCHANGED notElimVars
  /\ elimScreen' = "modeSelect"
  /\ UNCHANGED <<combatantsRef, speedMultiplierRef, frameCountRef,
                 eliminationOrderRef, playerEliminatedRef,
                 winnerCelebrationFramesRef, elimAnimationFrame,
                 elimGameStarted, elimWinner, elimScore, elimPlacement,
                 selectedCharacterId, selectedGameMode, finalLeaderboard, loopPlayer,
                 loopMode, staleLoops, animationFrameOwner, nameEntryTimers,
                 winnerEffectRan, eliminationWins, onWinCalls, tiesSeen,
                 collisionLog, elimTicks, elimClicksLeft,
                 modePicksLeft>>

\* a click on one of the GAME_MODES cards: setSelectedGameMode(mode)
SelectGameMode ==
  /\ elimScreen = "modeSelect"
  /\ UNCHANGED notElimVars
  /\ \E mode \in DOMAIN GameModes :
       /\ mode # selectedGameMode
       /\ selectedGameMode' = mode
  /\ modePicksLeft > 0
  /\ modePicksLeft' = modePicksLeft - 1
  /\ UNCHANGED elimScreen
  /\ UNCHANGED <<combatantsRef, speedMultiplierRef, frameCountRef,
                 eliminationOrderRef, playerEliminatedRef,
                 winnerCelebrationFramesRef, elimAnimationFrame,
                 elimGameStarted, elimWinner, elimScore, elimPlacement,
                 selectedCharacterId, finalLeaderboard, loopPlayer,
                 loopMode, staleLoops, animationFrameOwner, nameEntryTimers,
                 winnerEffectRan, eliminationWins, onWinCalls, tiesSeen,
                 collisionLog, elimTicks, elimClicksLeft>>

\* "SELECT DIFFICULTY ->" on the game mode screen
ToDifficulty ==
  /\ elimScreen = "modeSelect"
  /\ UNCHANGED notElimVars
  /\ elimScreen' = "difficultySelect"
  /\ UNCHANGED <<combatantsRef, speedMultiplierRef, frameCountRef,
                 eliminationOrderRef, playerEliminatedRef,
                 winnerCelebrationFramesRef, elimAnimationFrame,
                 elimGameStarted, elimWinner, elimScore, elimPlacement,
                 selectedCharacterId, selectedGameMode, finalLeaderboard, loopPlayer,
                 loopMode, staleLoops, animationFrameOwner, nameEntryTimers,
                 winnerEffectRan, eliminationWins, onWinCalls, tiesSeen,
                 collisionLog, elimTicks, elimClicksLeft,
                 modePicksLeft>>

\* "SELECT YOUR FIGHTER ->" on the difficulty screen (fighterCount kept)
ToCharacterSelect ==
  /\ elimScreen = "difficultySelect"
  /\ UNCHANGED notElimVars
  /\ elimScreen' = "characterSelect"
  /\ UNCHANGED <<combatantsRef, speedMultiplierRef, frameCountRef,
                 eliminationOrderRef, playerEliminatedRef,
                 winnerCelebrationFramesRef, elimAnimationFrame,
                 elimGameStarted, elimWinner, elimScore, elimPlacement,
                 selectedCharacterId, selectedGameMode, finalLeaderboard, loopPlayer,
                 loopMode, staleLoops, animationFrameOwner, nameEntryTimers,
                 winnerEffectRan, eliminationWins, onWinCalls, tiesSeen,
                 collisionLog, elimTicks, elimClicksLeft,
                 modePicksLeft>>

\* "FIGHT AGAIN" on the post-game leaderboard
FightAgain ==
  /\ elimScreen = "leaderboard"
  /\ UNCHANGED notElimVars
  /\ elimScreen' = "characterSelect"
  /\ elimGameStarted' = FALSE
  /\ elimWinner' = 0
  /\ winnerEffectRan' = <<>>
  /\ finalLeaderboard' = <<>>
  /\ UNCHANGED <<combatantsRef, speedMultiplierRef, frameCountRef,
                 eliminationOrderRef, playerEliminatedRef,
                 winnerCelebrationFramesRef, elimAnimationFrame, elimScore,
                 elimPlacement, selectedCharacterId, selectedGameMode,
                 loopPlayer, loopMode, staleLoops, animationFrameOwner,
                 nameEntryTimers, eliminationWins, onWinCalls, tiesSeen,
                 collisionLog, elimTicks, elimClicksLeft,
                 modePicksLeft>>

\* "HOME": cancelAnimationFrame(animationFrameRef.current) (by the button
\* of the arena, by the cleanup effect otherwise), then onBack() unmounts
Home ==
  /\ elimScreen # "home"
  /\ elimClicksLeft > 0
  /\ UNCHANGED notElimVars
  /\ elimClicksLeft' = elimClicksLeft - 1
  /\ UNCHANGED modePicksLeft
  /\ elimScreen' = "home"
  /\ elimAnimationFrame' = FrameAfterCancel
  /\ staleLoops' = StaleAfterCancel
  /\ UNCHANGED <<combatantsRef, speedMultiplierRef, frameCountRef,
                 eliminationOrderRef, playerEliminatedRef,
                 winnerCelebrationFramesRef, elimGameStarted, elimWinner,
                 elimScore, elimPlacement, selectedCharacterId,
                 selectedGameMode, finalLeaderboard, loopPlayer, loopMode,
                 animationFrameOwner, nameEntryTimers, winnerEffectRan,
                 eliminationWins, onWinCalls, tiesSeen, collisionLog,
                 elimTicks>>

\* ------------------------------------------------------------------------
\* Elimination: the states explored.  Besides the arena before its first
\* match, matches are entered late, with the field thinned out to the last
\* two or three fighters on one or two lives, shortly before they meet.
\* ------------------------------------------------------------------------
\* the five fighters already out (ids 4..8), with their order tags
EarlierOut(tied) ==
  [k \in 4 .. 8 |->
     Cmb(k, 600 + 1200 * (k - 4), 4000, 2, -2, 0, TRUE,
         IF tied /\ k > 5 THEN k - 4 ELSE k - 3)]

\* the positions and velocities of fighters 1..3 (fighter 3 may be out)
Geometries ==
  [headOn  |-> <<<<3000, 2000, 5, 0>>, <<3620, 2000, -5, 0>>,
                 <<6000, 1000, 3, -2>>>>,
   cluster |-> <<<<3000, 2000, 5, 0>>, <<3605, 2000, -5, 0>>,
                 <<3300, 2525, 0, -5>>>>,
   corner  |-> <<<<310, 2000, -5, 3>>, <<915, 2000, -4, 3>>,
                 <<7190, 4190, 4, 5>>>>,
   wall    |-> <<<<303, 2000, -5, 0>>, <<895, 2000, 1, 0>>,
                 <<6000, 1000, 3, -2>>>>,
   oblique |-> <<<<3000, 2000, 3, 4>>, <<3356, 2483, 4, -3>>,
                 <<6000, 1000, 3, -2>>>>]

\* sc: [geo, lives (of fighters 1..3; 0 = already out), tied, frames,
\*      celebration, player, mode]
ScenarioCombatants(sc) ==
  LET g == Geometries[sc.geo]
      base == IF sc.tied THEN 4 ELSE 5
      third == IF sc.lives[3] > 0
                 THEN Cmb(3, g[3][1], g[3][2], g[3][3], g[3][4],
                          sc.lives[3], FALSE, 0)
               ELSE Cmb(3, g[3][1], g[3][2], g[3][3], g[3][4],
                        0, TRUE, base + 1)
  IN <<Cmb(1, g[1][1], g[1][2], g[1][3], g[1][4], sc.lives[1], FALSE, 0),
       Cmb(2, g[2][1], g[2][2], g[2][3], g[2][4], sc.lives[2], FALSE, 0),
       third>>
     \o [k \in 1 .. 5 |-> EarlierOut(sc.tied)[k + 3]]

ScenarioOrder(sc) ==
  (IF sc.tied THEN 4 ELSE 5) + (IF sc.lives[3] > 0 THEN 0 ELSE 1)

\* the matches in which "CHANGE FIGHTER" and "HOME" clicks are explored too
UiScenario(sc) ==
  /\ sc.geo = "headOn" /\ sc.lives = <<2, 2, 2>> /\ ~sc.tied
  /\ sc.frames = 300 /\ sc.player = 1

MatchScenarios ==
  { [sc EXCEPT !.clicks = IF UiScenario(sc) THEN MaxElimClicks ELSE 0] :
    sc \in
      { [geo |-> g, lives |-> <<l1, l2, l3>>, tied |-> t, frames |-> f,
         celebration |-> 0, player |-> pl, mode |-> "classic", clicks |-> 0,
         stale |-> {}] :
          g \in {"headOn", "cluster", "corner"}, l1 \in {1, 2},
          l2 \in {1, 2}, l3 \in {0, 1, 2}, t \in BOOLEAN,
          f \in {300, 477}, pl \in {1, 5, 9} } }

\* matches begun by a "BEGIN ELIMINATION" that found the callback of the
\* match before still pending: that chain, started with fighter 2 as the
\* player's, runs alongside the chain of the match
StaleScenarios ==
  { [geo |-> g, lives |-> <<l1, l2, l3>>, tied |-> FALSE, frames |-> 300,
     celebration |-> 0, player |-> 1, mode |-> "classic", clicks |-> 0,
     stale |-> {Closure(2, "classic")}] :
      g \in {"headOn", "cluster"}, l1 \in {1, 2}, l2 \in {1, 2},
      l3 \in {0, 2} }

\* the same, the earlier match having been one of another game mode; the
\* frame counter is about to reach a speed step of one of the two modes
ModeChangeScenarios ==
  { [geo |-> "headOn", lives |-> <<2, 2, 2>>, tied |-> FALSE,
     frames |-> m[3], celebration |-> 0, player |-> 1, mode |-> m[1],
     clicks |-> 0, stale |-> {Closure(2, m[2])}] :
      m \in {<<"classic", "blitz", 477>>, <<"blitz", "classic", 237>>} }

\* fighter 1 reaches the left wall with fighter 2 close behind it: the
\* separation of their collision moves fighter 1 past the wall
WallScenarios ==
  { [geo |-> "wall", lives |-> <<3, 3, 0>>, tied |-> FALSE, frames |-> 300,
     celebration |-> 0, player |-> pl, mode |-> "classic", clicks |-> 0,
     stale |-> {}] : pl \in {1, 5} }

\* fighter 1 runs into fighter 2, which crosses its path at a right angle:
\* the normal of their collision lies along neither axis
ObliqueScenarios ==
  { [geo |-> "oblique", lives |-> <<3, 3, 0>>, tied |-> FALSE, frames |-> 300,
     celebration |-> 0, player |-> 1, mode |-> "classic", clicks |-> 0,
     stale |-> {}] }

\* a winner is already being celebrated: fighter 1 alone is left
CelebrationScenarios ==
  { [geo |-> "headOn", lives |-> <<l1, 0, 0>>, tied |-> FALSE, frames |-> f,
     celebration |-> 177, player |-> pl, mode |-> "classic",
     clicks |-> 0, stale |-> {}] :
      l1 \in {1, 3}, f \in {900}, pl \in {1, 5, 9} }

\* a celebration in which the "CHANGE FIGHTER" and "HOME" clicks are explored,
\* for UiCelebrationTicks frames
UiCelebrationTicks == 3
UiCelebrationScenarios ==
  { [geo |-> "headOn", lives |-> <<2, 0, 0>>, tied |-> FALSE, frames |-> 900,
     celebration |-> 179, player |-> 5, mode |-> "classic",
     clicks |-> MaxElimClicks, stale |-> {}] }

\* the same while two gameLoop chains run (the match was begun over a pending
\* callback of the match before)
StaleCelebrationScenarios ==
  { [geo |-> "headOn", lives |-> <<3, 0, 0>>, tied |-> FALSE, frames |-> 900,
     celebration |-> 177, player |-> 1, mode |-> "classic",
     clicks |-> 0, stale |-> {Closure(2, "classic")}] }

CelebrationCombatants(sc) ==
  LET cs == ScenarioCombatants(sc)
  IN [cs EXCEPT ![2] = Cmb(2, 3620, 2000, -5, 0, 0, TRUE, 7)]

ElimIdle ==
  /\ combatantsRef = <<>>
  /\ speedMultiplierRef = 10
  /\ frameCountRef = 0
  /\ eliminationOrderRef = 0
  /\ playerEliminatedRef = FALSE
  /\ winnerCelebrationFramesRef = 0
  /\ elimAnimationFrame = FALSE
  /\ elimGameStarted = FALSE
  /\ elimWinner = 0
  /\ elimScore = 0
  /\ elimPlacement = 0
  /\ selectedCharacterId = 1
  /\ selectedGameMode = "classic"
  /\ finalLeaderboard = <<>>
  /\ elimScreen = "home"
  /\ loopPlayer = 1
  /\ loopMode = "classic"
  /\ staleLoops = {}
  /\ animationFrameOwner = [chain |-> "none", player |-> NoClosure]
  /\ nameEntryTimers = 0
  /\ winnerEffectRan = <<>>
  /\ eliminationWins = 0
  /\ onWinCalls = 0
  /\ tiesSeen = 0
  /\ collisionLog = <<>>
  /\ elimTicks = 0
  /\ elimClicksLeft = 0
  /\ modePicksLeft = 0

\* the arena before "BEGIN ELIMINATION"
ElimFresh ==
  /\ combatantsRef = <<>>
  /\ speedMultiplierRef = 10
  /\ frameCountRef = 0
  /\ eliminationOrderRef = 0
  /\ playerEliminatedRef = FALSE
  /\ winnerCelebrationFramesRef = 0
  /\ elimAnimationFrame = FALSE
  /\ elimGameStarted = FALSE
  /\ elimWinner = 0
  /\ elimScore = 0
  /\ elimPlacement = 0
  /\ selectedCharacterId \in PickableCharacters
  /\ selectedGameMode \in {"classic", "blitz", "marathon"}
  /\ finalLeaderboard = <<>>
  /\ elimScreen = "arena"
  /\ loopPlayer = selectedCharacterId
  /\ loopMode = selectedGameMode
  /\ staleLoops = {}
  /\ animationFrameOwner = [chain |-> "none", player |-> NoClosure]
  /\ nameEntryTimers = 0
  /\ winnerEffectRan = <<>>
  /\ eliminationWins = 0
  /\ onWinCalls = 0
  /\ tiesSeen = 0
  /\ collisionLog = <<>>
  /\ elimTicks = 0
  /\ elimClicksLeft = 0
  /\ modePicksLeft = 0

\* a match in progress, as scenario sc describes it
ElimRunning(sc, cs, order) ==
  LET playerOut == \E k \in 1 .. Len(cs) :
                     cs[k].id = sc.player /\ cs[k].eliminated
      pc == cs[CHOOSE k \in 1 .. Len(cs) :
                 playerOut => cs[k].id = sc.player]
  IN /\ combatantsRef = cs
     /\ speedMultiplierRef =
          10 + (sc.frames \div GameModes[sc.mode].speedInterval)
                 * GameModes[sc.mode].speedIncrement
     /\ frameCountRef = sc.frames
     /\ eliminationOrderRef = order
     /\ playerEliminatedRef = playerOut
     /\ winnerCelebrationFramesRef = sc.celebration
     /\ elimAnimationFrame = TRUE
     /\ elimGameStarted = TRUE
     /\ elimWinner = 0
     /\ elimPlacement =
          IF playerOut THEN PlacementOf(pc, Len(cs))
          ELSE IF sc.celebration > 0 /\ sc.player = 1 THEN 1
          ELSE IF sc.celebration > 0 THEN Len(cs) ELSE 0
     /\ elimScore =
          IF playerOut
            THEN CalculateScore(PlacementOf(pc, Len(cs)), Len(cs), 2)
          ELSE IF sc.celebration > 0 /\ sc.player = 1
            THEN CalculateScore(1, Len(cs), 12)
          ELSE IF sc.celebration > 0
            THEN CalculateScore(Len(cs), Len(cs), 12)
          ELSE 0
     /\ selectedCharacterId = sc.player
     /\ selectedGameMode = sc.mode
     /\ finalLeaderboard = <<>>
     /\ elimScreen = "arena"
     /\ loopPlayer = sc.player
     /\ loopMode = sc.mode
     /\ staleLoops = sc.stale
     /\ animationFrameOwner = CurrentLoop
     /\ nameEntryTimers = 0
     /\ winnerEffectRan = <<>>
     /\ eliminationWins = 0
     /\ onWinCalls = 0
     /\ tiesSeen = (IF sc.tied THEN 1 ELSE 0)
     /\ collisionLog = <<>>
     /\ elimTicks = (IF sc \in UiCelebrationScenarios
                       THEN MaxElimTicks - UiCelebrationTicks ELSE 0)
     /\ elimClicksLeft = sc.clicks
     /\ modePicksLeft = (IF sc.clicks > 0 THEN MaxModePicks ELSE 0)

ElimInit ==
  \/ ElimFresh
  \/ \E sc \in MatchScenarios \cup StaleScenarios \cup ModeChangeScenarios
                \cup WallScenarios \cup ObliqueScenarios :
       ElimRunning(sc, ScenarioCombatants(sc), ScenarioOrder(sc))
  \/ \E sc \in CelebrationScenarios \cup StaleCelebrationScenarios
                \cup UiCelebrationScenarios :
       ElimRunning(sc, CelebrationCombatants(sc), 7)

ElimNext ==
  \/ HandleStart \/ ElimFrame \/ StaleFrame \/ WinnerEffect
  \/ NameEntryTimeout \/ ViewStandings \/ FightAgain
  \/ ChangeFighter \/ EnterArena \/ Home
  \/ BackToDifficulty \/ BackToGameMode \/ SelectGameMode
  \/ ToDifficulty \/ ToCharacterSelect

\* ------------------------------------------------------------------------
\* Drift: program constants.  Lengths and speeds are kept in hundredths of
\* a pixel, the boost meter in halves, angles in milliradians, wall time in
\* frame intervals (60 per second).
\* ------------------------------------------------------------------------
MaxDriftTicks == 10   \* frames explored per behaviour (drift)
MaxDriftKeys == 1     \* key events explored per behaviour (drift)
MaxDriftMounts == 1   \* races entered per behaviour (drift)

ACCELERATION == 50
DRIFT_MAX_SPEED == 1200
TURN_SPEED == 80
DRIFT_TURN_SPEED == 120
DRIFT_METER_RATE == 4
BOOST_DRAIN_RATE == 6
BOOST_METER_MAX == 200
BOOST_THRESHOLD == 60
BOOST_WINDOW == 90
DRIFT_MIN_SPEED == 300
HAZARD_METER_LOSS == 40

\* tracks[0] of lib/tracks.ts, "neon-streets"
selectedTrack ==
  [width |-> 1200 * PX, height |-> 800 * PX, laps |-> 3,
   checkpoints |->
     << [x |-> 200 * PX, y |-> 200 * PX, width |-> 80 * PX, perfectWindow |-> 20 * PX],
        [x |-> 600 * PX, y |-> 150 * PX, width |-> 80 * PX, perfectWindow |-> 20 * PX],
        [x |-> 900 * PX, y |-> 300 * PX, width |-> 80 * PX, perfectWindow |-> 20 * PX],
        [x |-> 1000 * PX, y |-> 600 * PX, width |-> 80 * PX, perfectWindow |-> 20 * PX],
        [x |-> 600 * PX, y |-> 700 * PX, width |-> 80 * PX, perfectWindow |-> 20 * PX],
        [x |-> 200 * PX, y |-> 650 * PX, width |-> 80 * PX, perfectWindow |-> 20 * PX] >>,
   hazards |->
     << [x |-> 400 * PX, y |-> 300 * PX, width |-> 40 * PX, height |-> 40 * PX],
        [x |-> 700 * PX, y |-> 450 * PX, width |-> 60 * PX, height |-> 20 * PX],
        [x |-> 300 * PX, y |-> 500 * PX, width |-> 80 * PX, height |-> 30 * PX] >>]

\* Math.cos in thousandths, on sixteenths of a turn
CosTable ==
  <<1000, 924, 707, 383, 0, -383, -707, -924,
    -1000, -924, -707, -383, 0, 383, 707, 924>>

\* the sixteenth of a turn nearest to angle (milliradians)
Notch(angle) == (((angle % 6283) * 16 + 3141) \div 6283) % 16

Cos(angle) == CosTable[Notch(angle) + 1]
Sin(angle) == CosTable[((Notch(angle) + 12) % 16) + 1]

\* a coordinate held at the edge it crossed
WrapCoordinateClamped(v, size) ==
  IF v < 0 THEN 0 ELSE IF v > size THEN size ELSE v

\* if (v < 0) v = size; if (v > size) v = 0
WrapCoordinate(v, size) ==
  IF v < 0 THEN size ELSE IF v > size THEN 0 ELSE v

\* a drift gain that runs past the top of the meter
DriftMeterGainUnclamped(meter) == meter + DRIFT_METER_RATE

\* Math.min(100, player.boostMeter + DRIFT_METER_RATE)
DriftMeterGain(meter) == Min(BOOST_METER_MAX, meter + DRIFT_METER_RATE)

\* the checkpoints whose capture radius holds (x, y), with the perfect flag
WithinRadius(x, y, cp, diameter) ==
  LET dx == x - cp.x
      dy == y - cp.y
      r == diameter \div 2
  IN Abs(dx) < r /\ Abs(dy) < r /\ dx * dx + dy * dy < r * r

CheckpointsAt(x, y) ==
  {i \in 1 .. Len(selectedTrack.checkpoints) :
     WithinRadius(x, y, selectedTrack.checkpoints[i],
                  selectedTrack.checkpoints[i].width)}

HazardsAt(x, y) ==
  {i \in 1 .. Len(selectedTrack.hazards) :
     LET h == selectedTrack.hazards[i]
     IN x > h.x /\ x < h.x + h.width /\ y > h.y /\ y < h.y + h.height}

\* the drift block of updateGame: d = [player, boosting, timeouts, fx]
DriftMechanics(d, held) ==
  LET p == d.player
  IN IF " " \in held /\ p.speed > DRIFT_MIN_SPEED
       THEN [d EXCEPT
               !.player.isDrifting = TRUE,
               !.player.boostMeter =
                  IF p.boostMeter < BOOST_METER_MAX
                    THEN DriftMeterGain(p.boostMeter) ELSE p.boostMeter,
               !.fx = @ \cup (IF p.boostMeter < BOOST_METER_MAX
                                THEN {"gain"} ELSE {})]
     ELSE IF p.isDrifting
       THEN IF p.boostMeter > BOOST_THRESHOLD
              THEN [d EXCEPT !.player.isDrifting = FALSE,
                             !.boosting = TRUE,
                             !.timeouts = Append(@, BOOST_WINDOW),
                             !.fx = @ \cup {"release", "boost"}]
            ELSE [d EXCEPT !.player.isDrifting = FALSE,
                           !.fx = @ \cup {"release"}]
     ELSE d

\* boost drain, else slow decay; capBoosting is the isBoosting updateGame sees
MeterDrain(p, capBoosting) ==
  IF capBoosting /\ p.boostMeter > 0
    THEN [p EXCEPT !.boostMeter = Max(0, p.boostMeter - BOOST_DRAIN_RATE)]
  ELSE IF ~p.isDrifting /\ p.boostMeter > 0
    THEN [p EXCEPT !.boostMeter = Max(0, p.boostMeter - 1)]
  ELSE p

\* acceleration, braking, friction
SpeedAfterInput(speed, held) ==
  IF held \cap {"arrowup", "w"} # {}
    THEN Min(DRIFT_MAX_SPEED, speed + ACCELERATION)
  ELSE IF held \cap {"arrowdown", "s"} # {} THEN Max(0, speed - (ACCELERATION * 3) \div 2)
  ELSE (speed * 96) \div 100

DriftEffectiveSpeed(p, capBoosting) ==
  LET drifted == IF p.isDrifting THEN (p.speed * 85) \div 100 ELSE p.speed
  IN IF capBoosting THEN (drifted * 3) \div 2 ELSE drifted

AngleAfterTurn(p, held) ==
  LET turn == ((IF p.isDrifting THEN DRIFT_TURN_SPEED ELSE TURN_SPEED)
                 * p.speed) \div DRIFT_MAX_SPEED
  IN p.angle - (IF held \cap {"arrowleft", "a"} # {} THEN turn ELSE 0)
             + (IF held \cap {"arrowright", "d"} # {} THEN turn ELSE 0)

\* completeLap as the running updateGame reaches it: cap holds its currentLap
\* and perfectCheckpoints
CompleteLap(c, cap, now, startTime) ==
  LET lapTime == now - startTime
      isPerfect == Cardinality(cap.perfect) = Len(selectedTrack.checkpoints)
  IN [c EXCEPT
        !.lapTimes = Append(@, [lap |-> cap.currentLap, time |-> lapTime,
                                isPerfect |-> isPerfect]),
        !.passed = {},
        !.perfect = {},
        !.finished = @ \/ cap.currentLap >= selectedTrack.laps,
        !.currentLap = IF cap.currentLap >= selectedTrack.laps
                         THEN @ ELSE @ + 1,
        !.fx = @ \cup {"lap"}]

\* the forEach body of checkCheckpointCollisions for checkpoint i, which
\* holds the vehicle: c = [passed, perfect, currentLap, lapTimes, finished, fx]
CaptureCheckpoint(c, cap, i, x, y, now, startTime) ==
  IF i \in cap.passed THEN c
  ELSE LET newCheckpoints == cap.passed \cup {i}
           cp == selectedTrack.checkpoints[i]
           c1 == [c EXCEPT !.passed = newCheckpoints, !.fx = @ \cup {"capture"}]
           c2 == IF WithinRadius(x, y, cp, cp.perfectWindow)
                   THEN [c1 EXCEPT !.perfect = cap.perfect \cup {i},
                                   !.fx = @ \cup {"perfect"}]
                 ELSE c1
       IN IF Cardinality(newCheckpoints) = Len(selectedTrack.checkpoints)
            THEN CompleteLap(c2, cap, now, startTime)
          ELSE c2

\* checkCheckpointCollisions: the capture circles of a track are disjoint,
\* so the forEach finds at most one checkpoint
CheckCheckpointCollisions(c, cap, x, y, now, startTime) ==
  IF CheckpointsAt(x, y) = {} THEN c
  ELSE CaptureCheckpoint(c, cap, CHOOSE i \in CheckpointsAt(x, y) : TRUE,
                         x, y, now, startTime)

\* checkHazardCollisions: the hazard boxes of a track are disjoint
CheckHazardCollisions(p) ==
  IF HazardsAt(p.x, p.y) = {} THEN p
  ELSE [p EXCEPT !.speed = @ \div 2,
                 !.boostMeter = Max(0, @ - HAZARD_METER_LOSS)]

\* variant: the frame written over the last one of the recording
RecordGhostFrameInPlace(ghost, elapsed) ==
  [len |-> ghost.len, last |-> elapsed]

\* ghostRecordingRef.current.push({x, y, angle, timestamp: elapsed})
RecordGhostFrame(ghost, elapsed) ==
  [len |-> ghost.len + 1, last |-> elapsed]

\* localStorage.getItem of a key never set (null)
NoItem == <<>>

\* finalTime.toString(): the decimal digits of a time, highest first
RECURSIVE toString(_)
toString(t) ==
  IF t < 10 THEN <<t>> ELSE Append(toString(t \div 10), t % 10)

\* parseFloat(savedBestTime)
RECURSIVE parseFloat(_)
parseFloat(str) ==
  IF Len(str) = 1 THEN str[1]
  ELSE parseFloat(SubSeq(str, 1, Len(str) - 1)) * 10 + str[Len(str)]

\* variant: a time equal to the stored best taken for a new record
FinishRaceOnTie(finalTime, recording, best, ghost) ==
  IF best = NoItem \/ finalTime <= parseFloat(best)
    THEN [best |-> toString(finalTime), ghost |-> recording]
  ELSE [best |-> best, ghost |-> ghost]

\* finishRace: the two items of the track after the race's final time has
\* been compared with the stored best
FinishRace(finalTime, recording, best, ghost) ==
  IF best = NoItem \/ finalTime < parseFloat(best)
    THEN [best |-> toString(finalTime), ghost |-> recording]
  ELSE [best |-> best, ghost |-> ghost]

NoFx == [ran |-> FALSE, fx |-> {}, ux |-> 0, uy |-> 0, at |-> {},
         hazards |-> {}, meterBefore |-> 0]

\* the state updateGame reads and writes, as one record
DriftState ==
  [player |-> playerRef, boosting |-> isBoosting, timeouts |-> boostTimeouts,
   currentLap |-> currentLap, lapTimes |-> lapTimes,
   passed |-> checkpointsPassed, perfect |-> perfectCheckpoints,
   finished |-> raceFinished, ghost |-> ghostRecordingRef, fx |-> NoFx]

\* updateGame, called with started/paused as the closure holds them
UpdateGame(s, cap, started, paused, now, startTime) ==
  IF ~started \/ paused \/ s.finished THEN s
  ELSE
    LET held == keysPressed
        elapsed == now - startTime
        d == DriftMechanics([player |-> s.player, boosting |-> s.boosting,
                             timeouts |-> s.timeouts, fx |-> {}], held)
        p1 == MeterDrain(d.player, cap.isBoosting)
        p2 == [p1 EXCEPT !.speed = SpeedAfterInput(p1.speed, held)]
        eff == DriftEffectiveSpeed(p2, cap.isBoosting)
        p3 == [p2 EXCEPT !.angle = AngleAfterTurn(p2, held)]
        ux == p3.x + TruncDiv(Cos(p3.angle) * eff, 1000)
        uy == p3.y + TruncDiv(Sin(p3.angle) * eff, 1000)
        p4 == [p3 EXCEPT !.x = WrapCoordinate(ux, selectedTrack.width),
                         !.y = WrapCoordinate(uy, selectedTrack.height)]
        c == CheckCheckpointCollisions(
               [passed |-> s.passed, perfect |-> s.perfect,
                currentLap |-> s.currentLap, lapTimes |-> s.lapTimes,
                finished |-> s.finished, fx |-> d.fx],
               cap, p4.x, p4.y, now, startTime)
        p5 == CheckHazardCollisions(p4)
    IN [player |-> p5, boosting |-> d.boosting, timeouts |-> d.timeouts,
        currentLap |-> c.currentLap, lapTimes |-> c.lapTimes,
        passed |-> c.passed, perfect |-> c.perfect, finished |-> c.finished,
        ghost |-> RecordGhostFrame(s.ghost, elapsed),
        fx |-> [ran |-> TRUE, fx |-> c.fx, ux |-> ux, uy |-> uy,
                at |-> CheckpointsAt(p4.x, p4.y),
                hazards |-> HazardsAt(p4.x, p4.y),
                meterBefore |-> s.player.boostMeter]]

\* what a render captures for updateGame and the callbacks it reaches
ClosureOf(s) ==
  [passed |-> s.passed, perfect |-> s.perfect, isBoosting |-> s.boosting,
   currentLap |-> s.currentLap]

\* the state a run of updateGame leaves; cap is the closure that ran.  A
\* change of raceFinished re-creates updateGame from the new render
DriftCommit(r, cap) ==
  /\ playerRef' = r.player
  /\ isBoosting' = r.boosting
  /\ boostTimeouts' = r.timeouts
  /\ currentLap' = r.currentLap
  /\ lapTimes' = r.lapTimes
  /\ checkpointsPassed' = r.passed
  /\ perfectCheckpoints' = r.perfect
  /\ raceFinished' = r.finished
  /\ ghostRecordingRef' = r.ghost
  \* completeLap of the last lap has called finishRace(lapTime)
  /\ \E saved \in {IF r.finished /\ ~raceFinished
                      THEN FinishRace(r.lapTimes[Len(r.lapTimes)].time,
                                      r.ghost, savedBestTime, savedGhost)
                    ELSE [best |-> savedBestTime, ghost |-> savedGhost]} :
       /\ savedBestTime' = saved.best
       /\ savedGhost' = saved.ghost
  /\ driftFx' = r.fx
  /\ updateGameClosure' = IF r.finished # raceFinished THEN ClosureOf(r)
                          ELSE cap
  /\ enteredSinceLap' =
       IF Len(r.lapTimes) > Len(lapTimes) THEN {}
       ELSE IF r.fx.ran THEN enteredSinceLap \cup r.fx.at
       ELSE enteredSinceLap

\* one run of the animation effect: the cleanup of its previous run cancels
\* the registration animationFrameRef names, then animate() registers if
\* gameStarted; "orphaned" counts a registration left pending and replaced
AfterEffect(pending, started) ==
  [pending |-> IF started THEN TRUE ELSE CancelAnimationFrame(pending),
   orphaned |-> IF started /\ CancelAnimationFrame(pending) THEN 1 ELSE 0]

\* the registrations after a step in which the effect ran (once more when
\* the run of updateGame it made finished the race)
LoopRegistered(pending, started, effects) ==
  LET e1 == AfterEffect(pending, started)
      e2 == AfterEffect(e1.pending, started)
  IN /\ driftAnimationFrame' =
          (IF effects = 0 THEN pending
           ELSE IF effects = 1 THEN e1.pending ELSE e2.pending)
     /\ driftOrphans' = driftOrphans
          + (IF effects >= 1 THEN e1.orphaned ELSE 0)
          + (IF effects >= 2 THEN e2.orphaned ELSE 0)

\* a change of gameStarted, isPaused or raceStartTime re-creates updateGame
\* from the current render, and the effect restarts the loop with a call of
\* animate(), which runs the new updateGame at once
RestartLoop(started, paused, startTime) ==
  \E r \in {UpdateGame(DriftState, ClosureOf(DriftState), started, paused,
                       clock, startTime)} :
    /\ DriftCommit(r, ClosureOf(DriftState))
    /\ LoopRegistered(driftAnimationFrame, started,
                      IF r.finished # raceFinished THEN 2 ELSE 1)

\* the countdown interval reaching 0
CountdownDone ==
  /\ driftMounted
  /\ ~driftGameStarted
  /\ UNCHANGED notDriftVars
  /\ UNCHANGED <<driftMounted, driftMounts>>
  /\ driftGameStarted' = TRUE
  /\ raceStartTime' = clock
  /\ RestartLoop(TRUE, isPaused, clock)
  /\ UNCHANGED <<isPaused, keysPressed, clock, driftTicks, driftKeys>>

\* animate(): a requestAnimationFrame callback of the running loop
DriftFrame ==
  /\ driftMounted
  /\ driftAnimationFrame
  /\ UNCHANGED notDriftVars
  /\ UNCHANGED <<driftMounted, driftMounts>>
  /\ \A n \in 1 .. Len(boostTimeouts) : boostTimeouts[n] > 0
  /\ driftTicks < MaxDriftTicks
  /\ driftTicks' = driftTicks + 1
  /\ clock' = clock + 1
  /\ \E r \in {UpdateGame(DriftState, updateGameClosure, driftGameStarted,
                          isPaused, clock + 1, raceStartTime)} :
       \E r1 \in {[r EXCEPT !.timeouts =
                               [n \in 1 .. Len(r.timeouts) |->
                                  IF n <= Len(boostTimeouts)
                                    THEN r.timeouts[n] - 1 ELSE r.timeouts[n]]]} :
         /\ DriftCommit(r1, updateGameClosure)
         \* animate() has registered the next callback
         /\ LoopRegistered(TRUE, TRUE,
                           IF r1.finished # raceFinished THEN 1 ELSE 0)
  /\ UNCHANGED <<driftGameStarted, isPaused, raceStartTime, keysPressed,
                 driftKeys>>

\* the setTimeout(() => setIsBoosting(false), 1500) that has come due
BoostTimeout ==
  /\ driftMounted
  /\ boostTimeouts # <<>>
  /\ Head(boostTimeouts) <= 0
  /\ UNCHANGED notDriftVars
  /\ UNCHANGED <<driftMounted, driftMounts, driftAnimationFrame, driftOrphans,
                 enteredSinceLap, savedBestTime, savedGhost>>
  /\ boostTimeouts' = Tail(boostTimeouts)
  /\ isBoosting' = FALSE
  /\ driftFx' = [NoFx EXCEPT !.fx = {"timeout"}]
  /\ UNCHANGED <<driftGameStarted, isPaused, raceFinished, raceStartTime,
                 playerRef, currentLap, lapTimes, checkpointsPassed,
                 perfectCheckpoints, keysPressed, ghostRecordingRef,
                 updateGameClosure, clock, driftTicks, driftKeys>>

DriftKeyNames ==
  {"arrowup", "arrowdown", "arrowleft", "arrowright", " ", "escape"}

\* handleKeyDown
DriftKeyDown(key) ==
  /\ driftMounted
  /\ driftKeys < MaxDriftKeys
  /\ UNCHANGED notDriftVars
  /\ UNCHANGED <<driftMounted, driftMounts>>
  /\ driftKeys' = driftKeys + 1
  /\ keysPressed' = keysPressed \cup {key}
  /\ IF key = "escape"
       THEN /\ isPaused' = ~isPaused
            /\ RestartLoop(driftGameStarted, ~isPaused, raceStartTime)
     ELSE /\ driftFx' = [NoFx EXCEPT !.fx = {"keydown"}]
          /\ UNCHANGED <<isPaused, playerRef, isBoosting, boostTimeouts,
                         currentLap, lapTimes, checkpointsPassed,
                         perfectCheckpoints, raceFinished, ghostRecordingRef,
                         updateGameClosure, enteredSinceLap,
                         savedBestTime, savedGhost,
                         driftAnimationFrame, driftOrphans>>
  /\ UNCHANGED <<driftGameStarted, raceStartTime, clock, driftTicks>>

\* handleKeyUp
DriftKeyUp(key) ==
  /\ driftMounted
  /\ driftKeys < MaxDriftKeys
  /\ key \in keysPressed
  /\ UNCHANGED notDriftVars
  /\ UNCHANGED <<driftMounted, driftMounts, driftAnimationFrame, driftOrphans,
                 enteredSinceLap, savedBestTime, savedGhost>>
  /\ driftKeys' = driftKeys + 1
  /\ keysPressed' = keysPressed \ {key}
  /\ driftFx' = [NoFx EXCEPT !.fx = {"keyup"}]
  /\ UNCHANGED <<driftGameStarted, isPaused, raceFinished, raceStartTime,
                 playerRef, isBoosting, boostTimeouts, currentLap, lapTimes,
                 checkpointsPassed, perfectCheckpoints, ghostRecordingRef,
                 updateGameClosure, clock, driftTicks>>

DriftKeyPress == \E key \in DriftKeyNames : DriftKeyDown(key)

DriftKeyRelease == \E key \in DriftKeyNames : DriftKeyUp(key)

\* the Resume button of the pause menu
ResumeClick ==
  /\ driftMounted
  /\ isPaused
  /\ UNCHANGED notDriftVars
  /\ UNCHANGED <<driftMounted, driftMounts>>
  /\ isPaused' = FALSE
  /\ RestartLoop(driftGameStarted, FALSE, raceStartTime)
  /\ UNCHANGED <<driftGameStarted, raceStartTime, keysPressed, clock,
                 driftTicks, driftKeys>>

\* the component state and refs of a fresh mount (mounted) or none
DriftComponentReset(mounted) ==
  /\ driftMounted' = mounted
  /\ driftGameStarted' = FALSE
  /\ isPaused' = FALSE
  /\ raceFinished' = FALSE
  /\ raceStartTime' = 0
  /\ playerRef' = [x |-> 150 * PX, y |-> 500 * PX, angle |-> 0, speed |-> 0,
                   isDrifting |-> FALSE, boostMeter |-> 0]
  /\ isBoosting' = FALSE
  /\ boostTimeouts' = <<>>
  /\ currentLap' = 1
  /\ lapTimes' = <<>>
  /\ checkpointsPassed' = {}
  /\ perfectCheckpoints' = {}
  /\ keysPressed' = {}
  /\ ghostRecordingRef' = [len |-> 0, last |-> 0]
  /\ updateGameClosure' = [passed |-> {}, perfect |-> {},
                           isBoosting |-> FALSE, currentLap |-> 1]
  /\ enteredSinceLap' = {}
  /\ clock' = 0
  /\ driftFx' = NoFx
  /\ driftTicks' = 0
  /\ driftKeys' = 0

\* App.handleTrackSelect: DRIFT_ATTACK renders DriftAttackGame, whose mount
\* effect places the vehicle and starts the countdown
HandleTrackSelect ==
  /\ gameState = "MENU"
  /\ ~driftMounted
  /\ driftMounts < MaxDriftMounts
  /\ gameState' = "DRIFT_ATTACK"
  /\ UNCHANGED <<runnerRefs, elimVars>>
  /\ DriftComponentReset(TRUE)
  /\ driftMounts' = driftMounts + 1
  /\ UNCHANGED <<driftAnimationFrame, driftOrphans, savedBestTime, savedGhost>>

\* "Quit" of the pause menu or the results screen (onBack): App leaves
\* DRIFT_ATTACK, the component unmounts and the effect cleanups run
DriftUnmount ==
  /\ driftMounted
  /\ isPaused \/ raceFinished
  /\ gameState' = "MENU"
  /\ UNCHANGED <<runnerRefs, elimVars>>
  /\ DriftComponentReset(FALSE)
  /\ driftAnimationFrame' = CancelAnimationFrame(driftAnimationFrame)
  /\ UNCHANGED <<driftMounts, driftOrphans, savedBestTime, savedGhost>>

DriftNext ==
  \/ DriftUnmount
  \/ CountdownDone
  \/ DriftFrame
  \/ BoostTimeout
  \/ DriftKeyPress
  \/ DriftKeyRelease
  \/ ResumeClick

\* ------------------------------------------------------------------------
\* Drift: the states explored.  Besides the countdown, races are entered
\* ten seconds in, with the vehicle about to cross an edge, a checkpoint
\* or a hazard, or in the middle of a drift or a boost window.
\* ------------------------------------------------------------------------
Car(x, y, angle, speed, drifting, meter) ==
  [x |-> x * PX, y |-> y * PX, angle |-> angle, speed |-> speed,
   isDrifting |-> drifting, boostMeter |-> meter]

BaseRace ==
  [mounted |-> TRUE, started |-> TRUE, car |-> Car(600, 400, 0, DRIFT_MAX_SPEED, FALSE, 0),
   keys |-> {"arrowup"}, boosting |-> FALSE, timeouts |-> <<>>,
   capBoosting |-> FALSE, passed |-> {}, perfect |-> {}, lap |-> 1,
   lapTimes |-> <<>>, best |-> NoItem, ghost |-> [len |-> 0, last |-> 0]]

EdgeScenarios ==
  {[BaseRace EXCEPT !.car = Car(c[1], c[2], c[3], DRIFT_MAX_SPEED, FALSE, 0)] :
     c \in {<<1195, 400, 0>>, <<5, 400, 3142>>, <<600, 795, 1571>>,
            <<600, 5, 4712>>, <<1195, 795, 785>>, <<1188, 400, 0>>}}

\* towards checkpoint 1 at (200, 200), 8 px above its centre or through it
CheckpointScenarios ==
  {[BaseRace EXCEPT !.car = Car(153, y, 0, DRIFT_MAX_SPEED, FALSE, 0),
                    !.passed = ps, !.perfect = ps \ {1}] :
     y \in {192, 200, 230}, ps \in {{}, {1}, {2, 3}}}

\* towards the cone at (400, 300)
HazardScenarios ==
  {[BaseRace EXCEPT !.car = Car(395, 320, 0, DRIFT_MAX_SPEED, FALSE, m)] :
     m \in {0, 30, 100, 200}}

\* in a drift, space held
DriftScenarios ==
  {[BaseRace EXCEPT !.car = Car(600, 400, 0, DRIFT_MAX_SPEED, TRUE, m),
                    !.keys = {"arrowup", " "}] :
     m \in {50, 60, 61, 194, 197, 198}}

\* a boost window armed before the last pause toggle, so that updateGame
\* sees isBoosting = true
BoostScenarios ==
  {[BaseRace EXCEPT !.car = Car(600, 400, 0, DRIFT_MAX_SPEED, FALSE, m),
                    !.boosting = TRUE, !.timeouts = <<t>>,
                    !.capBoosting = TRUE] :
     m \in {20, 100}, t \in {3, 60}}

\* five checkpoints captured across pause toggles, the sixth at (200, 650)
\* ahead, in lap 1 or in lap 3
LapScenarios ==
  {[BaseRace EXCEPT !.car = Car(153, 642, 0, DRIFT_MAX_SPEED, FALSE, 0),
                    !.passed = 1 .. 5, !.perfect = pf, !.lap = 1] :
     pf \in {{}, 1 .. 5}}
  \cup
  {[BaseRace EXCEPT !.car = Car(153, 650, 0, DRIFT_MAX_SPEED, FALSE, 0),
                    !.passed = 1 .. 5, !.perfect = pf, !.lap = 3,
                    !.lapTimes = <<[lap |-> 1, time |-> 200, isPerfect |-> FALSE],
                                   [lap |-> 2, time |-> 400, isPerfect |-> FALSE]>>] :
     pf \in {{}, 1 .. 5}}

\* the last checkpoint of lap 3 ahead (the race will finish at time 601),
\* on a track with a stored record: slower, equal or faster than that.  The
\* stored ghost is the recording of the race that set the record
RecordScenarios ==
  {[BaseRace EXCEPT !.car = Car(153, 650, 0, DRIFT_MAX_SPEED, FALSE, 0),
                    !.passed = 1 .. 5, !.lap = 3,
                    !.lapTimes = <<[lap |-> 1, time |-> 200, isPerfect |-> FALSE],
                                   [lap |-> 2, time |-> 400, isPerfect |-> FALSE]>>,
                    !.best = toString(t),
                    !.ghost = [len |-> t - 5, last |-> t]] :
     t \in {599, 601, 602, 1000}}

RaceScenarios ==
  EdgeScenarios \cup CheckpointScenarios \cup HazardScenarios
    \cup DriftScenarios \cup BoostScenarios \cup LapScenarios
    \cup RecordScenarios

DriftStateOf(sc) ==
  /\ driftMounted = sc.mounted
  /\ driftMounts = (IF sc.mounted THEN 1 ELSE 0)
  /\ driftAnimationFrame = sc.started
  /\ driftOrphans = 0
  /\ enteredSinceLap = sc.passed
  /\ driftGameStarted = sc.started
  /\ isPaused = FALSE
  /\ raceFinished = FALSE
  /\ raceStartTime = 0
  /\ playerRef = sc.car
  /\ isBoosting = sc.boosting
  /\ boostTimeouts = sc.timeouts
  /\ currentLap = sc.lap
  /\ lapTimes = sc.lapTimes
  /\ checkpointsPassed = sc.passed
  /\ perfectCheckpoints = sc.perfect
  /\ keysPressed = sc.keys
  /\ ghostRecordingRef = IF sc.started THEN [len |-> 590, last |-> 600]
                         ELSE [len |-> 0, last |-> 0]
  /\ updateGameClosure = [passed |-> sc.passed, perfect |-> sc.perfect,
                          isBoosting |-> sc.capBoosting,
                          currentLap |-> sc.lap]
  /\ savedBestTime = sc.best
  /\ savedGhost = sc.ghost
  /\ clock = IF sc.started THEN 600 ELSE 0
  /\ driftFx = NoFx
  /\ driftTicks = 0
  /\ driftKeys = 0

\* the countdown before a race: the vehicle on the start position
Countdown(ks) ==
  [BaseRace EXCEPT !.started = FALSE, !.car = Car(150, 500, 0, 0, FALSE, 0),
                   !.keys = ks]

\* DriftAttackGame not rendered
DriftIdle == DriftStateOf([Countdown({}) EXCEPT !.mounted = FALSE])

DriftInit ==
  \/ \E ks \in {{}, {"arrowup"}} : DriftStateOf(Countdown(ks))
  \/ \E sc \in RaceScenarios : DriftStateOf(sc)

\* ========================================================================
\* Runner: properties
\* ========================================================================
IdsOf(ents) == {ents[k].id : k \in 1 .. Len(ents)}

\* an unpaused frame callback is the step being taken
IsActiveFrameStep ==
  /\ gameState = "PLAYING" /\ reqRef /\ ~pausedRef
  /\ framesRef' = framesRef + 1

\* the obstacles of the list whose box, scrolled by this frame, overlaps the
\* hitbox the frame computes
ObstaclesInContact ==
  {k \in 1 .. Len(entitiesRef) :
     /\ entitiesRef[k].type = "obstacle"
     /\ entitiesRef[k].x - EffectiveSpeed > -100 * PX
     /\ Overlaps(PlayerRect(LerpedPlayerY, DecayedOffsetX, JumpedOffsetY),
                 EntityRect([entitiesRef[k] EXCEPT !.x = @ - EffectiveSpeed]))}

\* the jump offset of this frame is beyond the 50 px clearance
BeyondClearance == JumpedOffsetY < -50 * PX

\* every other entity that stays in front of the rear cutoff is kept
OthersKept(k) ==
  \A j \in 1 .. Len(entitiesRef) :
     (j # k /\ entitiesRef[j].x - EffectiveSpeed > -100 * PX)
       => entitiesRef[j].id \in IdsOf(entitiesRef')

\* the multiplier the combo count stands for: 1, 2 from 5, 3 from 10, 5 from 20
C1_StepFunction(count) ==
  CASE count < 5 -> 1
    [] count >= 5 /\ count <= 9 -> 2
    [] count >= 10 /\ count <= 19 -> 3
    [] OTHER -> 5

\* C1: the combo multiplier is the step function of the combo count
\* (1 below 5, 2 for 5..9, 3 for 10..19, 5 from 20) in every reachable state;
\* a step that raises the count never lowers the multiplier; a shielded hit
\* and a timer expiry without a pickup leave count 0 and multiplier 1.
C1_ComboMultiplier ==
  /\ [](comboMultiplierRef = C1_StepFunction(comboCountRef))
  /\ [][comboCountRef' > comboCountRef
          => comboMultiplierRef' >= comboMultiplierRef]_vars
  /\ [][("shieldBroken" \in lastFx'.fx
          \/ (IsActiveFrameStep /\ comboTimerRef = 0 /\ comboCountRef > 0
              /\ "coin" \notin lastFx'.fx))
          => comboCountRef' = 0 /\ comboMultiplierRef' = 1]_vars

\* a coin pickup that brought the combo count to 20 and the multiplier to 5
C1_Witness ==
  /\ "coin" \in lastFx.fx
  /\ comboCountRef = 20
  /\ comboMultiplierRef = 5

\* C2: an unpaused frame in which the hitbox overlaps an obstacle that is not
\* jumped over while the shield is active clears the shield, removes exactly
\* that obstacle, resets the combo, does not call onGameOver and schedules
\* the loop again.
C2_ShieldAbsorbs ==
  [][(IsActiveFrameStep /\ shieldActiveRef /\ ~BeyondClearance
        /\ ObstaclesInContact # {})
      => /\ ~shieldActiveRef'
         /\ \E k \in ObstaclesInContact :
              /\ ObstaclesInContact = {k}
              /\ entitiesRef[k].id \notin IdsOf(entitiesRef')
              /\ OthersKept(k)
         /\ comboCountRef' = 0
         /\ comboMultiplierRef' = 1
         /\ comboTimerRef' = 0
         /\ gameOverCalls' = gameOverCalls
         /\ gameState' = "PLAYING"
         /\ reqRef']_vars

\* a frame in which the shield took a hit and the run went on
C2_Witness ==
  /\ "shieldBroken" \in lastFx.fx
  /\ ~shieldActiveRef
  /\ gameState = "PLAYING"
  /\ reqRef
  /\ gameOverCalls = 0

\* C3: with no shield, an obstacle overlapping the hitbox ends the run when
\* the jump offset is not beyond the 50 px clearance, and changes nothing
\* (obstacle kept, score, shield, combo and run state as without contact)
\* when the offset is beyond it.
C3_JumpClearance ==
  [][(IsActiveFrameStep /\ ~shieldActiveRef /\ ObstaclesInContact # {})
      => IF BeyondClearance
           THEN /\ \A k \in ObstaclesInContact :
                     entitiesRef[k].id \in IdsOf(entitiesRef')
                /\ scoreRef' = scoreRef
                     + (IF (framesRef + 1) % 20 = 0 THEN 10 ELSE 0)
                /\ ~shieldActiveRef'
                /\ comboCountRef' =
                     (IF comboTimerRef = 0 THEN 0 ELSE comboCountRef)
                /\ comboTimerRef' =
                     (IF comboTimerRef = 0 THEN 0 ELSE comboTimerRef - 1)
                /\ lastFx'.hit = {}
                /\ gameOverCalls' = gameOverCalls
                /\ gameState' = "PLAYING"
                /\ reqRef'
           ELSE /\ gameOverCalls' = gameOverCalls + 1
                /\ gameState' = "GAME_OVER"
                /\ ~reqRef']_vars

\* a frame that passed over an obstacle in contact, beyond the clearance
C3_Witness ==
  /\ "jumpedOver" \in lastFx.fx
  /\ lastFx.hit = {}
  /\ jumpOffsetYRef < -50 * PX
  /\ ~shieldActiveRef
  /\ gameState = "PLAYING"

\* the player hitbox of the current state
CurrentPlayerRect == PlayerRect(playerYRef, playerOffsetXRef, jumpOffsetYRef)

\* C12: onGameOver is called at most once per run, and only by a frame that
\* leaves an obstacle overlapping the hitbox with the shield down and the
\* jump offset not beyond the clearance; once it was called no step of that
\* run changes score, level, speed, entity list or player state, and no
\* frame callback stays registered.
C12_GameOverOnce ==
  /\ [](gameOverCalls <= 1)
  /\ []((gameState = "GAME_OVER") => (gameOverCalls = 1 /\ ~reqRef))
  /\ [](gameOverCalls = 1 => ~reqRef)
  /\ [][gameOverCalls' > gameOverCalls
        => /\ IsActiveFrameStep
           /\ ~shieldActiveRef'
           /\ ~IsJumpingOverObstacles(jumpOffsetYRef')
           /\ \E k \in 1 .. Len(entitiesRef') :
                /\ entitiesRef'[k].type = "obstacle"
                /\ Overlaps(PlayerRect(playerYRef', playerOffsetXRef',
                                       jumpOffsetYRef'),
                            EntityRect(entitiesRef'[k]))]_vars
  /\ [][(gameOverCalls = 1 /\ gameOverCalls' = 1)
        => UNCHANGED <<scoreRef, levelRef, speedRef, entitiesRef,
                       playerLaneRef, playerYRef, playerOffsetXRef,
                       isJumpingRef, jumpVelocityRef, jumpOffsetYRef,
                       shieldActiveRef, framesRef, reqRef>>]_vars

\* a run ended by a fatal hit: the obstacle is still in the list, in contact
C12_Witness ==
  /\ gameState = "GAME_OVER"
  /\ gameOverCalls = 1
  /\ "gameOver" \in lastFx.fx
  /\ ~reqRef
  /\ \E k \in 1 .. Len(entitiesRef) :
       /\ entitiesRef[k].type = "obstacle"
       /\ Overlaps(CurrentPlayerRect, EntityRect(entitiesRef[k]))

\* the step is a key-down of a pause key, Escape or P
IsPauseToggleStep ==
  /\ keys' = keys + 1
  /\ lastFx'.kind = "key"
  /\ lastFx'.fx \cap {"escape", "p"} # {}

\* the step is a frame callback, a key-down or a touch
IsFrameOrInputStep ==
  \/ ticks' = ticks + 1
  \/ keys' = keys + 1

\* C19: while paused, a frame callback, key-down or touch that is not a
\* pause-key key-down changes none of score, level, speed, target lane, lane
\* offset, jump state, combo state, shield, slow-motion timer and entity
\* list; during play every Escape or P key-down flips pausedRef, and no
\* other key, touch or frame changes it.
C19_PauseFreezes ==
  /\ [][(gameState = "PLAYING" /\ pausedRef /\ IsFrameOrInputStep
          /\ ~IsPauseToggleStep)
        => UNCHANGED <<scoreRef, levelRef, speedRef, playerLaneRef,
                       playerOffsetXRef, isJumpingRef, jumpVelocityRef,
                       jumpOffsetYRef, comboCountRef, comboMultiplierRef,
                       comboTimerRef, shieldActiveRef, slowMoTimerRef,
                       entitiesRef>>]_vars
  /\ [][(gameState = "PLAYING" /\ IsPauseToggleStep)
        => /\ pausedRef' = ~pausedRef
           /\ UNCHANGED <<scoreRef, levelRef, speedRef, playerLaneRef,
                          playerOffsetXRef, isJumpingRef, jumpVelocityRef,
                          jumpOffsetYRef, comboCountRef, comboMultiplierRef,
                          comboTimerRef, shieldActiveRef, slowMoTimerRef,
                          entitiesRef>>]_vars
  /\ [][(IsFrameOrInputStep /\ ~IsPauseToggleStep)
        => pausedRef' = pausedRef]_vars

\* a lane key pressed while paused, after paused frame callbacks: the target
\* lane is still the starting lane
C19_Witness ==
  /\ gameState = "PLAYING"
  /\ pausedRef
  /\ everPaused
  /\ lastFx.kind = "key"
  /\ lastFx.fx = {"arrowup"}
  /\ playerLaneRef = 2

\* C20: a jump key-down while the player is airborne leaves jump velocity,
\* jump offset and the airborne flag as they are; a key-down starts a jump
\* (sets the take-off velocity) only when the player is on the ground, the
\* previous jump having landed at offset 0.
C20_NoDoubleJump ==
  /\ [][(gameState = "PLAYING" /\ isJumpingRef /\ keys' = keys + 1
          /\ lastFx'.kind = "key" /\ lastFx'.fx = {" "})
        => UNCHANGED <<jumpVelocityRef, jumpOffsetYRef, isJumpingRef>>]_vars
  /\ [][(keys' = keys + 1
          /\ <<jumpVelocityRef, jumpOffsetYRef, isJumpingRef>>'
               # <<jumpVelocityRef, jumpOffsetYRef, isJumpingRef>>)
        => /\ lastFx'.fx = {" "}
           /\ ~isJumpingRef
           /\ jumpOffsetYRef = 0
           /\ isJumpingRef'
           /\ jumpVelocityRef' = JUMP_VELOCITY
           /\ jumpOffsetYRef' = 0]_vars

\* the jump key pressed again in mid-air: the jump goes on as it was
C20_Witness ==
  /\ gameState = "PLAYING"
  /\ lastFx.kind = "key"
  /\ lastFx.fx = {" "}
  /\ isJumpingRef
  /\ jumpOffsetYRef < 0
  /\ jumpVelocityRef > JUMP_VELOCITY

\* frames a jump lasts: the 50th frame after take-off is the first to find
\* the offset, -15 k + 0.3 k (k + 1), above 0
JumpFrames == 50

\* velocity and offset k frames after take-off
JumpPhase(k) ==
  [v |-> JUMP_VELOCITY + k * GRAVITY,
   off |-> k * JUMP_VELOCITY + ((k * (k + 1)) \div 2) * GRAVITY]

CurrentJump == [v |-> jumpVelocityRef, off |-> jumpOffsetYRef]

\* C21: every jump ends: an airborne player is k < 50 unpaused frames into
\* the jump, each unpaused frame takes the jump one frame further and the
\* 50th lands it with offset 0, velocity 0 and the airborne flag cleared; the
\* offset is never positive and is 0 whenever the player is not airborne.
C21_JumpEnds ==
  /\ [](/\ jumpOffsetYRef <= 0
        /\ ~isJumpingRef => (jumpOffsetYRef = 0 /\ jumpVelocityRef = 0)
        /\ isJumpingRef =>
             \E k \in 0 .. JumpFrames - 1 : CurrentJump = JumpPhase(k))
  /\ [][(IsActiveFrameStep /\ isJumpingRef)
        => \A k \in 0 .. JumpFrames - 1 :
             CurrentJump = JumpPhase(k)
               => IF k + 1 < JumpFrames
                    THEN /\ isJumpingRef'
                         /\ jumpVelocityRef' = JumpPhase(k + 1).v
                         /\ jumpOffsetYRef' = JumpPhase(k + 1).off
                         /\ jumpOffsetYRef' <= 0
                    ELSE /\ ~isJumpingRef'
                         /\ jumpVelocityRef' = 0
                         /\ jumpOffsetYRef' = 0]_vars

\* the 50th frame of the jump that was 46 frames old at frame 326: landed
C21_Witness ==
  /\ lastFx.kind = "frame"
  /\ framesRef = 330
  /\ ticks = 4
  /\ ~isJumpingRef
  /\ jumpOffsetYRef = 0
  /\ jumpVelocityRef = 0

\* C30: any two entities of the list that share a lane are at least
\* SPAWN_DISTANCE (300) apart on the x-axis.
C30_SpawnSpacing ==
  \A i, j \in 1 .. Len(entitiesRef) :
     (i # j /\ entitiesRef[i].lane = entitiesRef[j].lane)
       => Abs(entitiesRef[i].x - entitiesRef[j].x) >= SPAWN_DISTANCE * PX

\* frame 500 found four entities, the lane-4 one 250 behind the spawn point,
\* and left four: the spawn drew lane 4 and was dropped
C30_Witness ==
  /\ lastFx.kind = "frame"
  /\ framesRef = 500
  /\ ticks = 1
  /\ Len(entitiesRef) = 4
  /\ \E k \in 1 .. 4 :
       /\ entitiesRef[k].lane = 4
       /\ (CANVAS_WIDTH + 100) * PX - entitiesRef[k].x < SPAWN_DISTANCE * PX + speedRef

\* the rival the step announces: the one it adds to introducedRivalsRef
AnnouncedRivals == introducedRivalsRef' \ introducedRivalsRef

\* the rivals of the entities the step pushes on the list (an entity
\* spawned in frame f carries f as its id)
RivalsAdded ==
  {entitiesRef'[k].rival : k \in {m \in 1 .. Len(entitiesRef') :
      /\ entitiesRef'[m].id = framesRef'
      /\ entitiesRef'[m].rival # 0}}

\* C31: a frame emits the CHALLENGER announcement only for a rival not
\* announced before in the run, only in a spawn that puts an obstacle with
\* that rival's identity on the entity list, and in every spawn that puts
\* on the list an obstacle of a rival not announced before.
C31_ChallengerOnce ==
  [][ IsActiveFrameStep =>
        /\ "challenger" \in lastFx'.fx <=> AnnouncedRivals # {}
        /\ AnnouncedRivals \subseteq RivalsAdded
        /\ RivalsAdded \ introducedRivalsRef \subseteq AnnouncedRivals ]_vars

\* C32: a frame in which the player collects a blast power-up completes:
\* no read outside the entity list ends it, the next callback is
\* registered, the list afterwards holds no obstacle and not the blast
\* entity, every other entity the player did not touch (and that has not
\* scrolled out) is still on it, and with nothing else touched the score
\* is up by 100 besides the frame's distance award.
C32_BlastCompletes ==
  [][ (IsActiveFrameStep /\ "blast" \in lastFx'.fx) =>
        /\ ~crashed'
        /\ reqRef'
        /\ \A k \in 1 .. Len(entitiesRef') :
             /\ entitiesRef'[k].type # "obstacle"
             /\ entitiesRef'[k].id \notin lastFx'.hit
        /\ \A k \in 1 .. Len(entitiesRef) :
             ( /\ entitiesRef[k].type # "obstacle"
               /\ entitiesRef[k].id \notin lastFx'.hit
               /\ entitiesRef[k].x - EffectiveSpeed > -100 * PX )
             => entitiesRef[k].id \in IdsOf(entitiesRef')
        /\ Cardinality(lastFx'.hit) = 1 =>
             scoreRef' = scoreRef + 100
                + (IF AwardDue(framesRef') THEN DISTANCE_AWARD ELSE 0) ]_vars

\* an unpaused frame in which no coin is collected and no shielded hit
\* occurs
IsQuietComboFrame ==
  /\ IsActiveFrameStep
  /\ "coin" \notin lastFx'.fx
  /\ "shieldBroken" \notin lastFx'.fx

\* C33: a coin pickup leaves the combo timer at 180; an unpaused frame
\* without a coin pickup and without a shielded hit that finds the timer
\* above 0 takes one off it and leaves combo count and multiplier as they
\* are; one that finds the timer at 0 with a combo count above 0 resets the
\* count to 0 and the multiplier to 1.
C33_ComboTimer ==
  /\ [][ (IsActiveFrameStep /\ "coin" \in lastFx'.fx
           /\ "shieldBroken" \notin lastFx'.fx)
         => comboTimerRef' = COMBO_WINDOW ]_vars
  /\ [][ (IsQuietComboFrame /\ comboTimerRef > 0)
         => /\ comboTimerRef' = comboTimerRef - 1
            /\ comboCountRef' = comboCountRef
            /\ comboMultiplierRef' = comboMultiplierRef ]_vars
  /\ [][ (IsQuietComboFrame /\ comboTimerRef = 0 /\ comboCountRef > 0)
         => /\ comboTimerRef' = 0
            /\ comboCountRef' = 0
            /\ comboMultiplierRef' = 1 ]_vars

\* the combo of three coins whose timer stood at 1 at frame 280: frame 281
\* took the timer to 0 with the combo kept, frame 282 found it at 0 and
\* reset the combo
C33_Witness ==
  /\ lastFx.kind = "frame"
  /\ framesRef = 282
  /\ ticks = 2
  /\ scoreRef = 290
  /\ comboCountRef = 0
  /\ comboMultiplierRef = 1
  /\ comboTimerRef = 0

\* a frame callback that runs while paused
IsPausedFrameStep ==
  /\ gameState = "PLAYING" /\ reqRef /\ pausedRef
  /\ lastFx'.kind = "pausedFrame"

\* C39: a paused frame does not shift the schedule: the counter that the
\* distance award (every 20th) and the spawn tests read advances on unpaused
\* frames only, so a frame callback that runs while paused leaves it as it
\* is, for every pause pattern.
C39_PauseSchedule ==
  [][IsPausedFrameStep => framesRef' = framesRef]_vars

\* C9: in a run started from score 0 with no entity collision, the score
\* after n frames is 10 * floor(n / 20).
C9_DistanceScore ==
  (gameState = "PLAYING" /\ ~hadCollision)
    => scoreRef = 10 * (framesRef \div 20)

\* C10: a level-up check that finds score >= level * LEVEL_SCORE_THRESHOLD
\* raises the level by one and the speed by one SPEED_INCREMENT clamped at
\* MAX_SPEED; the level changes in no other way during a run; hence
\* speed = min(MAX_SPEED, INITIAL_SPEED + (level - 1) * SPEED_INCREMENT).
C10_LevelSpeed ==
  /\ [](/\ speedRef =
            Min(MAX_SPEED, INITIAL_SPEED + (levelRef - 1) * SPEED_INCREMENT)
        /\ speedRef <= MAX_SPEED)
  /\ [][(IsActiveFrameStep /\ (framesRef + 1) % 20 = 0
          /\ scoreRef + 10 >= levelRef * LEVEL_SCORE_THRESHOLD)
        => /\ levelRef' = levelRef + 1
           /\ speedRef' = Min(MAX_SPEED, speedRef + SPEED_INCREMENT)]_vars
  /\ [][levelRef' # levelRef
        => \/ lastFx'.kind = "start"
           \/ /\ IsActiveFrameStep /\ (framesRef + 1) % 20 = 0
              /\ scoreRef + 10 >= levelRef * LEVEL_SCORE_THRESHOLD]_vars

\* a level-up check at level 51 that found the speed already at MAX_SPEED
C10_Witness ==
  /\ levelRef = 52
  /\ speedRef = MAX_SPEED
  /\ lastFx.kind = "frame"

\* ========================================================================
\* Elimination: properties
\* ========================================================================
\* a step that ran gameLoop (a frame callback, or the call in handleStart)
IsElimLoopStep == elimTicks' = elimTicks + 1

IsHandleStartStep == IsElimLoopStep /\ ~elimGameStarted /\ elimGameStarted'

\* how many of the collisions in log involve combatant k
RECURSIVE HitsIn(_, _)
HitsIn(log, k) ==
  IF log = <<>> THEN 0
  ELSE (IF Head(log).a = k \/ Head(log).b = k THEN 1 ELSE 0)
         + HitsIn(Tail(log), k)

\* the life counters the loop started from
LivesBefore(k) ==
  IF IsHandleStartStep THEN GameModes[selectedGameMode].lives
  ELSE combatantsRef[k].lives

\* C4: every collision the pair loop detects takes exactly one life from each
\* of its two combatants, and nothing else moves a life counter: after a run
\* of gameLoop each counter is its value before minus the number of detected
\* collisions its owner took part in, each logged collision found the two
\* counters one higher than it left them, and no other step of a match
\* changes (in particular raises) a counter.
C4_LivesPerCollision ==
  [][ /\ IsElimLoopStep =>
           /\ \A k \in 1 .. Len(combatantsRef') :
                combatantsRef'[k].lives
                  = LivesBefore(k) - HitsIn(collisionLog', k)
           /\ \A n \in 1 .. Len(collisionLog') :
                LET e == collisionLog'[n]
                IN /\ e.a # e.b
                   /\ e.la = LivesBefore(e.a) - HitsIn(SubSeq(collisionLog', 1, n - 1), e.a)
                   /\ e.lb = LivesBefore(e.b) - HitsIn(SubSeq(collisionLog', 1, n - 1), e.b)
      /\ ~IsElimLoopStep =>
           /\ Len(combatantsRef') = Len(combatantsRef)
           /\ \A k \in 1 .. Len(combatantsRef) :
                combatantsRef'[k].lives = combatantsRef[k].lives
      /\ ~IsHandleStartStep =>
           \A k \in 1 .. Len(combatantsRef) :
             combatantsRef'[k].lives <= combatantsRef[k].lives ]_vars

\* a frame in which one combatant took part in two collisions, the second
\* after it was already out
C4_Witness ==
  \E n \in 1 .. Len(collisionLog) :
    \/ collisionLog[n].ea /\ combatantsRef[collisionLog[n].a].lives < 0
    \/ collisionLog[n].eb /\ combatantsRef[collisionLog[n].b].lives < 0

\* C5: when both combatants of one collision reach life <= 0 for the first
\* time in it, the order counter advances once for the collision and both
\* carry that one order tag, hence the same placement total - order + 1.
C5_TiedElimination ==
  [][ IsElimLoopStep =>
        \A n \in 1 .. Len(collisionLog') :
          LET e == collisionLog'[n]
              c1 == combatantsRef'[e.a]
              c2 == combatantsRef'[e.b]
              total == Len(combatantsRef')
          IN IsTie(e) =>
               /\ e.oa = e.ob + 1
               /\ c1.eliminated /\ c2.eliminated
               /\ c1.eliminationOrder = e.oa
               /\ c2.eliminationOrder = e.oa
               /\ PlacementOf(c1, total) = PlacementOf(c2, total)
               /\ eliminationOrderRef' >= e.oa ]_vars

\* a frame whose collision took the last life of both combatants
C5_Witness ==
  \E n \in 1 .. Len(collisionLog) :
    /\ IsTie(collisionLog[n])
    /\ combatantsRef[collisionLog[n].a].eliminationOrder
         = combatantsRef[collisionLog[n].b].eliminationOrder

\* the combatants marked eliminated
ElimOut == {k \in 1 .. Len(combatantsRef) : combatantsRef[k].eliminated}

\* the order tags carried by eliminated combatants
ElimTags == {combatantsRef[k].eliminationOrder : k \in ElimOut}

\* C11: in every match the order tags in use are exactly 1 .. counter, a
\* gap-free range starting at 1, and only eliminated combatants carry one;
\* in a match of N combatants in which no collision took out both of its
\* combatants and one combatant is left, N - 1 eliminations are recorded
\* and the tags are 1 .. N - 1, each carried by exactly one combatant.
C11_EliminationOrders ==
  LET n == Len(combatantsRef)
  IN /\ ElimTags = 1 .. eliminationOrderRef
     /\ \A k \in (1 .. n) \ ElimOut : combatantsRef[k].eliminationOrder = 0
     /\ (tiesSeen = 0 /\ n > 0 /\ Cardinality(ElimOut) = n - 1) =>
          /\ eliminationOrderRef = n - 1
          /\ ElimTags = 1 .. (n - 1)
          /\ \A t \in 1 .. (n - 1) :
               Cardinality({k \in ElimOut :
                              combatantsRef[k].eliminationOrder = t}) = 1

\* a frame whose collision left one combatant of eight standing, in a match
\* without a double elimination
C11_Witness ==
  /\ tiesSeen = 0
  /\ Len(combatantsRef) = FighterCount
  /\ Cardinality(ElimOut) = FighterCount - 1
  /\ eliminationOrderRef = FighterCount - 1
  /\ \E n \in 1 .. Len(collisionLog) :
       collisionLog[n].oa = collisionLog[n].ob + 1

\* lives, order tag, position and velocity of a combatant
FrozenFields(c) == <<c.lives, c.eliminationOrder, c.x, c.y, c.vx, c.vy>>

\* C14: a combatant that is eliminated takes part in no further collision
\* and is left alone by every later frame: a run of gameLoop changes neither
\* lives, order tag, position nor velocity of a combatant eliminated before
\* it, and none of the collisions it resolves involves a combatant that an
\* earlier collision of the same frame had already eliminated.
C14_EliminatedFrozen ==
  [][ (IsElimLoopStep /\ ~IsHandleStartStep) =>
        /\ \A k \in 1 .. Len(combatantsRef) :
             combatantsRef[k].eliminated =>
               FrozenFields(combatantsRef'[k]) = FrozenFields(combatantsRef[k])
        /\ \A n \in 1 .. Len(collisionLog') :
             ~collisionLog'[n].ea /\ ~collisionLog'[n].eb ]_vars

\* how many of the collisions in log combatant k had with a combatant that
\* was not eliminated when the pair was tested
RECURSIVE HitsByActiveIn(_, _)
HitsByActiveIn(log, k) ==
  IF log = <<>> THEN 0
  ELSE (IF \/ Head(log).a = k /\ ~Head(log).eb
           \/ Head(log).b = k /\ ~Head(log).ea
          THEN 1 ELSE 0)
         + HitsByActiveIn(Tail(log), k)

\* C23: a collision is resolved only between two combatants that are both
\* non-eliminated when their pair is tested: a run of gameLoop takes from
\* each combatant one life per collision with a combatant active at that
\* moment and no other, and every collision it resolves found both active.
C23_ActivePairsOnly ==
  [][ IsElimLoopStep =>
        /\ \A k \in 1 .. Len(combatantsRef') :
             combatantsRef'[k].lives
               = LivesBefore(k) - HitsByActiveIn(collisionLog', k)
        /\ \A n \in 1 .. Len(collisionLog') :
             ~(collisionLog'[n].ea \/ collisionLog'[n].eb) ]_vars

\* the combatants the player of the running match controls
PlayerIndices(cs) == {k \in 1 .. Len(cs) : cs[k].id = loopPlayer}

\* C15: the frame in which the player's combatant is eliminated records
\* placement total - order + 1 and score (total - placement + 1) * 100
\* + floor(survivedSeconds * 10), survivedSeconds being that frame's, plus
\* 500 exactly when the placement is 1; once the player's combatant is out
\* no step of the match changes the recorded placement or score.
C15_PlayerRecord ==
  [][ ~IsHandleStartStep =>
        \A k \in PlayerIndices(combatantsRef) :
          LET total == Len(combatantsRef')
              out == combatantsRef'[k]
          IN /\ (~combatantsRef[k].eliminated /\ out.eliminated) =>
                  /\ elimPlacement' = total - out.eliminationOrder + 1
                  /\ elimScore' = (total - elimPlacement' + 1) * 100
                                    + 10 * (frameCountRef' \div 60)
                                    + (IF elimPlacement' = 1 THEN 500 ELSE 0)
             /\ combatantsRef[k].eliminated =>
                  UNCHANGED <<elimScore, elimPlacement>> ]_vars

\* 1 + speedIncrement * floor(frameCount / speedInterval), in tenths
SpeedRamp(mode, frameCount) ==
  10 + GameModes[mode].speedIncrement
         * (frameCount \div GameModes[mode].speedInterval)

\* a match runs two gameLoop chains whose closures hold different game modes
\* (reached by CHANGE FIGHTER, a game mode pick and BEGIN ELIMINATION)
ChainsOfTwoModes ==
  /\ elimGameStarted
  /\ elimAnimationFrame
  /\ frameCountRef = 1
  /\ \E cl \in staleLoops : cl.mode # loopMode

\* C22: after every frame of a match the speed multiplier is
\* 1 + speedIncrement * floor(frameCount / speedInterval) for the selected
\* game mode; it decreases only in the step that initialises a match, which
\* leaves it at 1.
C22_SpeedRamp ==
  /\ [][IsElimLoopStep
        => speedMultiplierRef' = SpeedRamp(selectedGameMode', frameCountRef')]_vars
  /\ [][speedMultiplierRef' < speedMultiplierRef
        => IsHandleStartStep /\ speedMultiplierRef' = 10]_vars

\* the frame-callback registrations not yet run: the chain of the latest
\* start and those of earlier starts
PendingLoops ==
  Cardinality(staleLoops) + (IF elimAnimationFrame THEN 1 ELSE 0)

\* the combatants not eliminated before the step, as the frame's filter at
\* its top finds them
ActiveBefore == {k \in 1 .. Len(combatantsRef) : ~combatantsRef[k].eliminated}

\* a frame callback of a running match (not the first frame, which
\* handleStart runs on the combatants it has just created)
IsLaterFrameStep == IsElimLoopStep /\ ~IsHandleStartStep

\* the multiplier the next run of the current gameLoop integrates with
MultiplierOfNextFrame ==
  IF (frameCountRef + 1) % GameModes[loopMode].speedInterval = 0
    THEN speedMultiplierRef + GameModes[loopMode].speedIncrement
  ELSE speedMultiplierRef

\* the current chain has a frame callback pending on the arena
FramePending == elimAnimationFrame /\ elimScreen = "arena"

\* the active combatants the integration of the next frame takes beyond an
\* arena bound on the x axis, resp. the y axis
BeyondOnX ==
  {k \in 1 .. Len(combatantsRef) :
     /\ ~combatantsRef[k].eliminated
     /\ LET x1 == IntegratedX(combatantsRef[k], MultiplierOfNextFrame)
        IN x1 - AVATAR_RADIUS < 0 \/ x1 + AVATAR_RADIUS > ArenaWidth}
BeyondOnY ==
  {k \in 1 .. Len(combatantsRef) :
     /\ ~combatantsRef[k].eliminated
     /\ LET y1 == IntegratedY(combatantsRef[k], MultiplierOfNextFrame)
        IN y1 - AVATAR_RADIUS < 0 \/ y1 + AVATAR_RADIUS > ArenaHeight}

\* a frame of the only gameLoop chain in which no two combatants collide:
\* what it leaves in combatantsRef is the outcome of the wall collision
IsBounceOnlyStep ==
  /\ IsLaterFrameStep /\ FramePending /\ staleLoops = {}
  /\ collisionLog' = <<>>

\* the bound of the axis a combatant beyond it is put on
BoundOnX(k) ==
  IF IntegratedX(combatantsRef[k], MultiplierOfNextFrame) - AVATAR_RADIUS < 0
    THEN AVATAR_RADIUS ELSE ArenaWidth - AVATAR_RADIUS
BoundOnY(k) ==
  IF IntegratedY(combatantsRef[k], MultiplierOfNextFrame) - AVATAR_RADIUS < 0
    THEN AVATAR_RADIUS ELSE ArenaHeight - AVATAR_RADIUS

\* v turned to point from bound b into the arena, its magnitude kept
Inward(v, b) == IF b = AVATAR_RADIUS THEN Abs(v) ELSE -Abs(v)

ExchangePairs ==
  {p \in (1 .. Len(combatantsRef)) \X (1 .. Len(combatantsRef)) :
     /\ FramePending
     /\ p[1] < p[2]
     /\ ~combatantsRef[p[1]].eliminated /\ ~combatantsRef[p[2]].eliminated
     /\ Direction(combatantsRef[p[2]].x - combatantsRef[p[1]].x,
                  combatantsRef[p[2]].y - combatantsRef[p[1]].y).scale
          <= MaxNormalScale}

\* C35: the exchange gives each combatant the other's velocity component
\* along the collision normal and leaves its component across the normal as
\* it was; the sum of the two velocity vectors and the sum of the two
\* squared speeds are the same after the exchange as before it.
C35_ElasticExchange ==
  \A p \in ExchangePairs :
    LET c1 == combatantsRef[p[1]]
        c2 == combatantsRef[p[2]]
        d == Direction(c2.x - c1.x, c2.y - c1.y)
        E == ExchangeVelocities(c1, c2, c2.x - c1.x, c2.y - c1.y)
        k == E.scale
    IN /\ E.c1vx * d.cos + E.c1vy * d.sin
            = k * (c2.vx * d.cos + c2.vy * d.sin)
       /\ E.c2vx * d.cos + E.c2vy * d.sin
            = k * (c1.vx * d.cos + c1.vy * d.sin)
       /\ E.c1vy * d.cos - E.c1vx * d.sin
            = k * (c1.vy * d.cos - c1.vx * d.sin)
       /\ E.c2vy * d.cos - E.c2vx * d.sin
            = k * (c2.vy * d.cos - c2.vx * d.sin)
       /\ E.c1vx + E.c2vx = k * (c1.vx + c2.vx)
       /\ E.c1vy + E.c2vy = k * (c1.vy + c2.vy)
       /\ E.c1vx * E.c1vx + E.c1vy * E.c1vy
            + E.c2vx * E.c2vx + E.c2vy * E.c2vy
            = k * k * (c1.vx * c1.vx + c1.vy * c1.vy
                         + c2.vx * c2.vx + c2.vy * c2.vy)

\* fighter 1, moving along the normal (3, 4), has met fighter 2, moving
\* across it: fighter 1 is at rest and fighter 2 has both velocities
C35_Witness ==
  /\ frameCountRef = 301
  /\ Len(collisionLog) = 1
  /\ collisionLog[1].a = 1 /\ collisionLog[1].b = 2
  /\ combatantsRef[1].vx = 0 /\ combatantsRef[1].vy = 0
  /\ combatantsRef[2].vx = 7 /\ combatantsRef[2].vy = 1

\* C36: the character the player has selected is one of the combatants a
\* match start creates.
C36_PlayerTakesPart ==
  [][IsHandleStartStep =>
       \E k \in 1 .. Len(combatantsRef') :
         combatantsRef'[k].id = selectedCharacterId]_vars

\* C24: every frame that begins with exactly one non-eliminated combatant
\* advances the celebration counter by one and leaves the survivor in the
\* match; the counter never passes WINNER_CELEBRATION_FRAMES (180): the
\* frames before the 180th declare no winner and schedule the next frame,
\* the 180th declares the survivor winner and schedules none; no frame that
\* begins with two or more active combatants declares a winner.
C24_Celebration ==
  /\ [][(IsLaterFrameStep /\ Cardinality(ActiveBefore) = 1)
        => \A k \in ActiveBefore :
             /\ winnerCelebrationFramesRef' = winnerCelebrationFramesRef + 1
             /\ winnerCelebrationFramesRef' <= WINNER_CELEBRATION_FRAMES
             /\ ~combatantsRef'[k].eliminated
             /\ IF winnerCelebrationFramesRef' < WINNER_CELEBRATION_FRAMES
                  THEN /\ elimWinner' = 0
                       /\ PendingLoops' = PendingLoops
                  ELSE /\ elimWinner' = combatantsRef[k].id
                       /\ PendingLoops' = PendingLoops - 1]_vars
  /\ [][(IsElimLoopStep /\ elimWinner' # elimWinner /\ elimWinner' # 0)
        => IsLaterFrameStep /\ Cardinality(ActiveBefore) <= 1]_vars

\* a frame began with no active combatant and finished the match
AllOutFinish ==
  /\ elimWinner # 0
  /\ Len(combatantsRef) > 0
  /\ \A k \in 1 .. Len(combatantsRef) : combatantsRef[k].eliminated
  /\ finalLeaderboard # <<>>

\* C25: a frame that begins with no non-eliminated combatant finishes the
\* match in that frame: the celebration counter stays where it is, the
\* winner is one of the combatants carrying the highest order tag, these
\* are exactly the rows of the best placement of the final leaderboard, and
\* the frame registers no further callback.
C25_AllEliminated ==
  [][(IsLaterFrameStep /\ ActiveBefore = {} /\ Len(combatantsRef) > 0)
      => /\ winnerCelebrationFramesRef' = winnerCelebrationFramesRef
         /\ combatantsRef' = combatantsRef
         /\ elimWinner' \in
              {combatantsRef[k].id : k \in {m \in 1 .. Len(combatantsRef) :
                 \A j \in 1 .. Len(combatantsRef) :
                    combatantsRef[j].eliminationOrder
                      <= combatantsRef[m].eliminationOrder}}
         /\ finalLeaderboard' # <<>>
         /\ {finalLeaderboard'[n].id : n \in {i \in 1 .. Len(finalLeaderboard') :
                finalLeaderboard'[i].placement = finalLeaderboard'[1].placement}}
              = {combatantsRef[k].id : k \in {m \in 1 .. Len(combatantsRef) :
                   \A j \in 1 .. Len(combatantsRef) :
                      combatantsRef[j].eliminationOrder
                        <= combatantsRef[m].eliminationOrder}}
         /\ PendingLoops' = PendingLoops - 1]_vars

\* the match ended with nobody standing: the last two fell in one collision
\* and share the highest order tag, the frame after it finished the match
C25_Witness ==
  /\ AllOutFinish
  /\ winnerCelebrationFramesRef = 0
  /\ PendingLoops = 0
  /\ Cardinality({k \in 1 .. Len(combatantsRef) :
         combatantsRef[k].eliminationOrder = eliminationOrderRef}) = 2

\* the winner set of the frame that finishes the match: the combatant left
\* standing, or, when nobody is, the combatants of the highest order tag
WinnerSet(cs) ==
  IF \E k \in 1 .. Len(cs) : ~cs[k].eliminated
    THEN {cs[k].id : k \in {m \in 1 .. Len(cs) : ~cs[m].eliminated}}
  ELSE {cs[k].id : k \in {m \in 1 .. Len(cs) :
          cs[m].eliminationOrder = MaxOrder(cs, 1)}}

\* C37: the frame that finishes a match gives every combatant of the winner
\* set placement 1 in the final leaderboard, and the leaderboard has a row
\* of placement 1, also when the match ends with nobody standing.
C37_WinnersPlacedFirst ==
  [][(IsElimLoopStep /\ elimWinner = 0 /\ elimWinner' # 0)
      => /\ \E n \in 1 .. Len(finalLeaderboard') :
              finalLeaderboard'[n].placement = 1
         /\ \A w \in WinnerSet(combatantsRef') :
              \E n \in 1 .. Len(finalLeaderboard') :
                /\ finalLeaderboard'[n].id = w
                /\ finalLeaderboard'[n].placement = 1]_vars

\* C38: the name-entry screen is shown only for a finished match (its
\* winner is set), and no timer of a finished match switches the view to the
\* name entry while a later match is running.
C38_NameEntryOfFinishedMatch ==
  /\ [](elimScreen = "nameEntry" => elimWinner # 0)
  /\ [][(elimGameStarted /\ elimWinner = 0 /\ elimScreen = "arena")
          => elimScreen' # "nameEntry"]_vars

\* C13: in a match whose winner is set onWin has been called exactly once
\* when the recorded placement is in 1 .. 5 and not at all otherwise, however
\* often the component re-rendered since (the winner effect has run).
C13_OnWinOnce ==
  /\ onWinCalls <= 1
  /\ (onWinCalls > 0 => elimPlacement \in 1 .. 5)
  /\ (elimWinner # 0 /\ winnerEffectRan # <<>>)
       => onWinCalls = (IF elimPlacement \in 1 .. 5 THEN 1 ELSE 0)


\* C18: at most one game-loop chain is live after a match start, and no
\* callback of a chain begun by an earlier start runs gameLoop on the
\* combatants of a later match.
C18_SingleLoop ==
  [][ /\ IsHandleStartStep => PendingLoops' <= 1
      /\ ~(StaleFrame /\ combatantsRef' # combatantsRef) ]_vars

\* a match begun through CHANGE FIGHTER, ENTER ARENA and BEGIN ELIMINATION
\* while the callback of the match before was still registered
TwoLoopsAfterRestart ==
  /\ PendingLoops = 2
  /\ frameCountRef = 1
  /\ elimClicksLeft < MaxElimClicks

\* ========================================================================
\* Drift: properties
\* ========================================================================
\* C6: once a checkpoint is in the passed set, a later frame of the same lap
\* that finds the vehicle inside its capture radius leaves the passed set,
\* the perfect set, the lap counter and the lap-time list as they were.
C6_CaptureIdempotent ==
  [][ (driftFx'.ran /\ driftFx'.at \cap checkpointsPassed # {}) =>
        /\ checkpointsPassed' = checkpointsPassed
        /\ perfectCheckpoints' = perfectCheckpoints
        /\ currentLap' = currentLap
        /\ lapTimes' = lapTimes ]_vars

AllCheckpoints == 1 .. Len(selectedTrack.checkpoints)

\* the step appends a LapTime record
LapCompleted == Len(lapTimes') = Len(lapTimes) + 1

\* C16: during a race a step appends a LapTime exactly when it is a frame
\* that brings the checkpoints entered since the previous completion to all
\* n of the track, and it appends one record only; the race becomes finished
\* exactly in the step that appends the L-th record; a finished race has L
\* records with lap numbers 1 .. L in order.
C16_LapCompletion ==
  /\ [][ (driftMounted /\ driftMounted') =>
          /\ Len(lapTimes') \in {Len(lapTimes), Len(lapTimes) + 1}
          /\ LapCompleted <=>
                /\ driftFx'.ran
                /\ enteredSinceLap # AllCheckpoints
                /\ enteredSinceLap \cup driftFx'.at = AllCheckpoints
          /\ (raceFinished' /\ ~raceFinished) <=>
                (LapCompleted /\ Len(lapTimes') = selectedTrack.laps) ]_vars
  /\ [](raceFinished =>
          /\ Len(lapTimes) = selectedTrack.laps
          /\ \A k \in 1 .. Len(lapTimes) : lapTimes[k].lap = k)

\* C7: the boost meter stays within [0, 100] (0 .. 200 halves) after every
\* frame, whatever keys are held, whether a boost window is open and whatever
\* hazard is touched.
C7_BoostMeterRange ==
  playerRef.boostMeter >= 0 /\ playerRef.boostMeter <= BOOST_METER_MAX

\* a drift frame whose gain was cut off at the top of the meter
C7_Witness ==
  /\ driftFx.ran
  /\ "gain" \in driftFx.fx
  /\ driftFx.meterBefore + DRIFT_METER_RATE > BOOST_METER_MAX
  /\ playerRef.boostMeter = BOOST_METER_MAX

\* C8 as stated: a coordinate integrated past an edge re-enters at the
\* opposite edge keeping its overshoot (width + e becomes e, -e becomes
\* width - e, likewise for y).
C8_WrapKeepsOvershoot ==
  driftFx.ran =>
    /\ driftFx.ux > selectedTrack.width =>
         playerRef.x = driftFx.ux - selectedTrack.width
    /\ driftFx.ux < 0 => playerRef.x = driftFx.ux + selectedTrack.width
    /\ driftFx.uy > selectedTrack.height =>
         playerRef.y = driftFx.uy - selectedTrack.height
    /\ driftFx.uy < 0 => playerRef.y = driftFx.uy + selectedTrack.height

\* C8, amended: a coordinate integrated past an edge is reset to the opposite
\* edge itself, the overshoot discarded (width + e becomes 0, -e becomes
\* width, likewise for y); a coordinate inside the arena is kept; the vehicle
\* is never left on the edge it crossed.
C8_WrapToOppositeEdge ==
  driftFx.ran =>
    /\ driftFx.ux > selectedTrack.width => playerRef.x = 0
    /\ driftFx.ux < 0 => playerRef.x = selectedTrack.width
    /\ (driftFx.ux >= 0 /\ driftFx.ux <= selectedTrack.width) =>
         playerRef.x = driftFx.ux
    /\ driftFx.uy > selectedTrack.height => playerRef.y = 0
    /\ driftFx.uy < 0 => playerRef.y = selectedTrack.height
    /\ (driftFx.uy >= 0 /\ driftFx.uy <= selectedTrack.height) =>
         playerRef.y = driftFx.uy

\* a frame that integrated x past the right edge by a positive overshoot
C8_Witness ==
  /\ driftFx.ran
  /\ driftFx.ux > selectedTrack.width
  /\ playerRef.x = 0

\* the perfect set the capture callback of the step starts from: the set of
\* the render the running updateGame was made in, or the current one when
\* the step re-creates updateGame
PerfectSeen ==
  IF driftTicks' # driftTicks THEN updateGameClosure.perfect
  ELSE perfectCheckpoints

\* the checkpoint captured by the step inside its perfect radius, if any
PerfectNow ==
  IF "perfect" \in driftFx'.fx THEN driftFx'.at ELSE {}

\* C26: the LapTime a lap completion appends has isPerfect = true exactly if
\* every checkpoint of the track is marked perfect for the lap once the
\* completing capture is counted: the marks the capture starts from together
\* with the checkpoint captured in the completing frame, when that capture
\* is inside the perfect radius.
C26_PerfectLap ==
  [][ LapCompleted =>
        (lapTimes'[Len(lapTimes')].isPerfect
           <=> PerfectSeen \cup PerfectNow = AllCheckpoints) ]_vars

\* the step runs updateGame past its guard with a boost window open
IsBoostedFrame ==
  /\ driftFx'.ran
  /\ isBoosting
  /\ boostTimeouts # <<>>

\* C27: a frame that releases a drift with the meter above 30 arms a boost
\* window; every simulated frame inside an open window moves the vehicle
\* by its speed times 1.5 (times 0.85 as well while drifting) and, when the
\* vehicle is not drifting, takes BOOST_DRAIN_RATE off the meter (down to 0).
C27_BoostWindow ==
  /\ [][ (driftFx'.ran /\ playerRef.isDrifting /\ ~playerRef'.isDrifting
           /\ playerRef.boostMeter > BOOST_THRESHOLD)
         => isBoosting' /\ Len(boostTimeouts') > 0 ]_vars
  /\ [][ (IsBoostedFrame /\ driftFx'.hazards = {})
         => LET drifted == IF playerRef'.isDrifting
                             THEN (playerRef'.speed * 85) \div 100
                           ELSE playerRef'.speed
                boosted == (drifted * 3) \div 2
            IN /\ driftFx'.ux - playerRef.x
                    = TruncDiv(Cos(playerRef'.angle) * boosted, 1000)
               /\ driftFx'.uy - playerRef.y
                    = TruncDiv(Sin(playerRef'.angle) * boosted, 1000)
               /\ ~playerRef'.isDrifting =>
                    playerRef'.boostMeter
                      = Max(0, playerRef.boostMeter - BOOST_DRAIN_RATE) ]_vars

\* the step calls animate(): a frame callback, or the animation effect
\* running again after gameStarted or isPaused changed
IsAnimateStep ==
  \/ driftTicks' # driftTicks
  \/ driftGameStarted' # driftGameStarted
  \/ isPaused' # isPaused

\* C28: while the race component is mounted the recording only grows, by
\* one frame in each call of updateGame made while the race is started, not
\* paused and not finished, and by none in any other step (countdown,
\* paused frames, frames after the finish, key events); the timestamp of
\* the last frame never goes down.
C28_GhostRecording ==
  [][ (driftMounted /\ driftMounted') =>
        /\ driftFx'.ran <=> /\ IsAnimateStep
                            /\ driftGameStarted' /\ ~isPaused' /\ ~raceFinished
        /\ ghostRecordingRef'.len
             = ghostRecordingRef.len + (IF driftFx'.ran THEN 1 ELSE 0)
        /\ ghostRecordingRef'.last >= ghostRecordingRef.last
        /\ driftFx'.ran => ghostRecordingRef'.last = clock' - raceStartTime' ]_vars

\* a race that was paused for a frame and resumed: the frame after the
\* pause is recorded, the paused one is not
C28_Witness ==
  /\ driftFx.ran
  /\ driftKeys > 0
  /\ ~isPaused
  /\ ghostRecordingRef.len = 592
  /\ ghostRecordingRef.last = 603

\* the step finishes the race
IsFinishStep == raceFinished' /\ ~raceFinished

\* C29: the stored best time of the track goes down to the final time of a
\* race exactly when the race finishes with a final time strictly below it
\* (or with none stored), and the stored ghost then becomes the recording
\* of that race; in every other step, the finish of a race that is not
\* strictly faster included, both stored items stay as they are.  Started
\* from no record, the stored time is thus the minimum of the final times
\* of the races finished so far and the ghost the recording of the race
\* that set it.
C29_BestTimeAndGhost ==
  [][ IF IsFinishStep
        THEN LET finalTime == lapTimes'[Len(lapTimes')].time
                 faster == \/ savedBestTime = NoItem
                           \/ finalTime < parseFloat(savedBestTime)
             IN /\ savedBestTime' # NoItem
                /\ parseFloat(savedBestTime')
                     = (IF savedBestTime = NoItem THEN finalTime
                        ELSE Min(finalTime, parseFloat(savedBestTime)))
                /\ savedGhost' = (IF faster THEN ghostRecordingRef'
                                  ELSE savedGhost)
                /\ ~faster => savedBestTime' = savedBestTime
      ELSE /\ savedBestTime' = savedBestTime
           /\ savedGhost' = savedGhost ]_vars

\* a race finished in exactly the stored best time: the record and its
\* ghost are those stored before
C29_Witness ==
  /\ raceFinished
  /\ savedBestTime # NoItem
  /\ parseFloat(savedBestTime) = lapTimes[Len(lapTimes)].time
  /\ savedGhost # ghostRecordingRef

\* a race finished below the stored best: the record is its final time and
\* the ghost its recording
NewRecord ==
  /\ raceFinished
  /\ savedBestTime = toString(lapTimes[Len(lapTimes)].time)
  /\ savedGhost = ghostRecordingRef
  /\ savedGhost.len > 0

\* ========================================================================
\* Specifications
\* ========================================================================
\* each engine is mounted alone: the other two stay in their idle state
\* ========================================================================
\* Runner and Drift: the frame-callback registrations
\* ========================================================================
RunnerRegistrations == (IF reqRef THEN 1 ELSE 0) + reqOrphans

DriftRegistrations == (IF driftAnimationFrame THEN 1 ELSE 0) + driftOrphans

\* a frame callback that runs while the race is started and paused
IsDriftPausedFrame ==
  /\ driftMounted /\ driftGameStarted /\ isPaused /\ ~raceFinished
  /\ driftTicks' = driftTicks + 1

\* C40: time spent paused is not counted: over a frame that runs while the
\* race is paused the elapsed race time, which lap times and ghost
\* timestamps are taken from, does not advance, and an armed boost window
\* keeps the time it has left.
C40_PausedTimeNotCounted ==
  /\ [][IsDriftPausedFrame
          => clock' - raceStartTime' = clock - raceStartTime]_vars
  /\ [][IsDriftPausedFrame
          => boostTimeouts' = boostTimeouts /\ isBoosting' = isBoosting]_vars

\* C17: at any time at most one frame-callback registration of the runner
\* and at most one of the drift race is pending: every start, retry, pause
\* toggle, prop change and unmount cancels the registration its ref names
\* before another is made, so none is left behind.
C17_SingleRegistration ==
  /\ RunnerRegistrations <= 1
  /\ DriftRegistrations <= 1
  /\ reqOrphans = 0
  /\ driftOrphans = 0

\* a runner run restarted by a prop change while its callback was pending,
\* in a session whose drift race was quit with its loop running
C17_Witness ==
  /\ gameState = "PLAYING"
  /\ lastFx.fx = {"propChange"}
  /\ ticks > 0
  /\ reqRef
  /\ driftMounts = 1
  /\ ~driftMounted
  /\ ~driftAnimationFrame

Init == RunnerInit /\ ElimIdle /\ DriftIdle

InitElim == RunnerIdle /\ ElimInit /\ DriftIdle

InitDrift == RunnerAway /\ ElimIdle /\ DriftInit

\* the App with either engine: the menu, or a race on screen
InitLoops ==
  \/ RunnerIdle /\ ElimIdle /\ DriftIdle
  \/ RunnerAway /\ ElimIdle /\ \E sc \in RaceScenarios : DriftStateOf(sc)

Spec == Init /\ [][RunnerNext]_vars

SpecElim == InitElim /\ [][ElimNext]_vars

SpecDrift == InitDrift /\ [][DriftNext]_vars

\* the two engines with a requestAnimationFrame loop, as the App switches
\* between them
LoopsNext == RunnerNext \/ DriftNext \/ HandleTrackSelect

SpecLoops == InitLoops /\ [][LoopsNext]_vars
====
